---- MODULE Spec2Model ----
(***************************************************************************)
(* Model of the monthly projection engine of the mining financial model   *)
(* (calculateScenarioMetrics and the functions it calls).                  *)
(*                                                                         *)
(* Numbers.  Counts of units are integers.  Every other JavaScript number  *)
(* (power, hashrate, BTC, money, fractions) is an exact rational           *)
(* [n |-> numerator, d |-> denominator] in lowest terms with d > 0; the    *)
(* two non-finite outcomes of a division by zero are NaN = 0/0 and         *)
(* Infinity = +-1/0.  IEEE-754 rounding is represented only in the section *)
(* on the allocation in binary64 arithmetic.                               *)
(*                                                                         *)
(* Dates.  An ISO date string "yyyy-MM-dd" is the tuple <<yyyy, MM, dd>>.  *)
(* A Date object is an instant, counted in ticks of the local wall clock   *)
(* of the host, which orders instants as getTime() does.  new Date of a    *)
(* date-only string is midnight UTC, that is the local midnight shifted by *)
(* the zone offset; startOfMonth, addMonths, differenceInMonths and format *)
(* work on the local calendar.  The offset is fixed during a run.          *)
(***************************************************************************)
EXTENDS Integers, Sequences, FiniteSets, TLC

\* ------------------------------------------------------------------------
\* Rational arithmetic standing for JavaScript numbers
\* ------------------------------------------------------------------------

\* the only element of a one-element set
Only(S) == CHOOSE x \in S : TRUE

\* F applied to the value of x, and to the values of x and y: local
\* constants, evaluated once
Let(x, F(_)) == Only({F(v) : v \in {x}})

Let2(x, y, F(_, _)) == Only({F(v, w) : v \in {x}, w \in {y}})

Abs(x) == Let(x, LAMBDA v : IF v < 0 THEN -v ELSE v)

RECURSIVE GCD(_, _)
GCD(a, b) == IF b = 0 THEN a ELSE Let(a % b, LAMBDA r : GCD(b, r))

NaN == [n |-> 0, d |-> 0]
Infinity == [n |-> 1, d |-> 0]
NegInfinity == [n |-> -1, d |-> 0]

IsNaN(x) == Let(x, LAMBDA a : a.d = 0 /\ a.n = 0)
IsFinite(x) == x.d > 0

\* the rational p/q (q > 0) in lowest terms
Frac(p, q) ==
  Let2(p, q, LAMBDA pv, qv :
    Let(GCD(Abs(pv), qv), LAMBDA g : [n |-> pv \div g, d |-> qv \div g]))

\* the integer i as a number
R(i) == [n |-> i, d |-> 1]

Sign(x) == Let(x, LAMBDA a : IF a.n > 0 THEN 1 ELSE IF a.n < 0 THEN -1 ELSE 0)

\* x * y
RMul(x, y) ==
  Let2(x, y, LAMBDA a, b :
    IF IsNaN(a) \/ IsNaN(b) THEN NaN
    ELSE IF a.d = 0 \/ b.d = 0
      THEN (IF Sign(a) * Sign(b) = 0 THEN NaN
            ELSE [n |-> Sign(a) * Sign(b), d |-> 0])
    ELSE Let2(GCD(Abs(a.n), b.d), GCD(Abs(b.n), a.d), LAMBDA g1, g2 :
           [n |-> (a.n \div g1) * (b.n \div g2),
            d |-> (a.d \div g2) * (b.d \div g1)]))

\* x / y, with 0/0 = NaN and x/0 = +-Infinity as in JavaScript
RDiv(x, y) ==
  Let2(x, y, LAMBDA a, b :
    IF IsNaN(a) \/ IsNaN(b) THEN NaN
    ELSE IF b.d = 0
      THEN (IF a.d = 0 THEN NaN ELSE R(0))
    ELSE IF b.n = 0
      THEN (IF a.d = 0 THEN a
            ELSE IF a.n = 0 THEN NaN
            ELSE [n |-> Sign(a), d |-> 0])
    ELSE IF a.d = 0
      THEN [n |-> Sign(a) * Sign(b), d |-> 0]
    ELSE RMul(a, [n |-> Sign(b) * b.d, d |-> Abs(b.n)]))

\* x + y
RAdd(x, y) ==
  Let2(x, y, LAMBDA a, b :
    IF IsNaN(a) \/ IsNaN(b) THEN NaN
    ELSE IF a.d = 0
      THEN (IF b.d = 0 /\ b.n # a.n THEN NaN ELSE a)
    ELSE IF b.d = 0 THEN b
    ELSE Let((a.d \div GCD(a.d, b.d)) * b.d, LAMBDA l :
           Frac(a.n * (l \div a.d) + b.n * (l \div b.d), l)))

RNeg(x) == Let(x, LAMBDA a : [n |-> -a.n, d |-> a.d])

\* x - y
RSub(x, y) == RAdd(x, RNeg(y))

\* x < y and x <= y (false when either side is NaN, as in JavaScript)
RLt(x, y) ==
  Let2(x, y, LAMBDA a, b :
    /\ ~IsNaN(a)
    /\ ~IsNaN(b)
    /\ IF a.d = 0 \/ b.d = 0
         THEN (IF a.d = 0 /\ b.d = 0 THEN a.n < b.n
               ELSE IF a.d = 0 THEN a.n < 0
               ELSE b.n > 0)
         ELSE a.n * b.d < b.n * a.d)

RLe(x, y) == Let2(x, y, LAMBDA a, b : ~IsNaN(a) /\ ~IsNaN(b) /\ ~RLt(b, a))

\* Math.floor and Math.ceil of a finite number, as an integer
Floor(x) == Let(x, LAMBDA a : a.n \div a.d)

Ceil(x) == Let(x, LAMBDA a : -((-a.n) \div a.d))

\* Math.min of two numbers
RMin(x, y) ==
  Let2(x, y, LAMBDA a, b :
    IF IsNaN(a) \/ IsNaN(b) THEN NaN ELSE IF RLt(b, a) THEN b ELSE a)

\* the JavaScript expression  x || dflt : dflt when x is 0 or NaN
OrElse(x, dflt) ==
  Let(x, LAMBDA a : IF IsNaN(a) \/ (a.d > 0 /\ a.n = 0) THEN dflt ELSE a)

\* the sum of the first k elements of a sequence of numbers
RECURSIVE RSumTo(_, _)
RSumTo(s, k) == IF k = 0 THEN R(0) ELSE RAdd(RSumTo(s, k - 1), s[k])

\* sum of a sequence of numbers, as Array.reduce((sum, v) => sum + v, 0)
RSum(s) == Let(s, LAMBDA v : RSumTo(v, Len(v)))

\* the sum of the first k elements of a sequence of integers
RECURSIVE ISumTo(_, _)
ISumTo(s, k) == IF k = 0 THEN 0 ELSE ISumTo(s, k - 1) + s[k]

\* sum of a sequence of integers
ISum(s) == Let(s, LAMBDA v : ISumTo(v, Len(v)))

\* Array.map, Array.filter and Array.find (<<>> stands for undefined)
Map(s, F(_)) == Let(s, LAMBDA v : [i \in 1..Len(v) |-> Let(v[i], F)])

Filter(s, P(_)) == SelectSeq(s, P)

Find(s, P(_)) ==
  LET hits == SelectSeq(s, P)
  IN  IF hits = <<>> THEN <<>> ELSE <<hits[1]>>

\* ------------------------------------------------------------------------
\* Dates (date-fns and the Date constructor)
\* ------------------------------------------------------------------------

\* A Date is an instant, counted in ticks of the host's local wall clock:
\* date-fns works in local time, while new Date("yyyy-MM-dd") is midnight UTC.

VARIABLE
  zone             \* the offset of the host's local time from UTC, in ticks

\* days reserved for one month in the day numbering
SlotDays == 31

\* ticks of one day: local midnight and the later parts of the day
TicksPerDay == 2

MonthTicks == SlotDays * TicksPerDay

\* the offsets tried: west of UTC, UTC, east of UTC
Zones == {-1, 0, 1}

\* new Date("yyyy-MM-dd"): midnight UTC of that day
NewDate(s) == ((s[1] * 12 + (s[2] - 1)) * SlotDays + (s[3] - 1)) * TicksPerDay + zone

\* format(date, "yyyy-MM-dd"): the local calendar day
format(t) ==
  LET mi == t \div MonthTicks
  IN  <<mi \div 12, (mi % 12) + 1, ((t % MonthTicks) \div TicksPerDay) + 1>>

\* local midnight of the first day of the local month
startOfMonth(t) == t - (t % MonthTicks)

\* addMonths of a first-of-month date
addMonths(t, k) == t + k * MonthTicks

isAfter(a, b) == a > b

isBefore(a, b) == a < b

\* differenceInMonths(dateLeft, dateRight): full months between the two,
\* for a dateLeft that is the first day of a month
differenceInMonths(dateLeft, dateRight) ==
  LET sign == IF dateLeft > dateRight THEN 1
              ELSE IF dateLeft < dateRight THEN -1 ELSE 0
      difference == Abs(dateLeft \div MonthTicks - dateRight \div MonthTicks)
      shifted == dateLeft - sign * difference * MonthTicks
      cmp == IF shifted > dateRight THEN 1
             ELSE IF shifted < dateRight THEN -1 ELSE 0
      isLastMonthNotFull == (cmp = -sign)
  IN  IF difference < 1 THEN 0
      ELSE sign * (difference - (IF isLastMonthNotFull THEN 1 ELSE 0))

\* ------------------------------------------------------------------------
\* Constants of the calculation module
\* ------------------------------------------------------------------------

SITE_CAPEX_DEPRECIATION_YEARS == 10
BLOCKS_PER_DAY == 144
DAYS_PER_MONTH == 30
BLOCKS_PER_MONTH == BLOCKS_PER_DAY * DAYS_PER_MONTH
HOURS_PER_MONTH == 730
FAILURE_SHAPE == 10
FAILURE_SCALE == Frac(98, 100)

HALVING_DATES ==
  << [date |-> NewDate(<<2009, 1, 3>>),   reward |-> R(50)],
     [date |-> NewDate(<<2012, 11, 28>>), reward |-> R(25)],
     [date |-> NewDate(<<2016, 7, 9>>),   reward |-> Frac(125, 10)],
     [date |-> NewDate(<<2020, 5, 11>>),  reward |-> Frac(625, 100)],
     [date |-> NewDate(<<2024, 4, 19>>),  reward |-> Frac(3125, 1000)],
     [date |-> NewDate(<<2028, 4, 1>>),   reward |-> Frac(15625, 10000)],
     [date |-> NewDate(<<2032, 4, 1>>),   reward |-> Frac(78125, 100000)] >>

\* ------------------------------------------------------------------------
\* getBlockReward
\* ------------------------------------------------------------------------

\* the loop of getBlockReward with an exclusive boundary
RECURSIVE BlockRewardFrom_Exclusive(_, _)
BlockRewardFrom_Exclusive(date, i) ==
  IF i < 1 THEN R(50)
  ELSE IF date > HALVING_DATES[i].date THEN HALVING_DATES[i].reward
  ELSE BlockRewardFrom_Exclusive(date, i - 1)

\* the loop of getBlockReward from index i downwards
RECURSIVE BlockRewardFrom(_, _)
BlockRewardFrom(date, i) ==
  IF i < 1 THEN R(50)
  ELSE IF date >= HALVING_DATES[i].date THEN HALVING_DATES[i].reward
  ELSE BlockRewardFrom(date, i - 1)

getBlockReward(date) == BlockRewardFrom(date, Len(HALVING_DATES))

\* ------------------------------------------------------------------------
\* calculateCumulativeFailureRate
\* ------------------------------------------------------------------------

\* Math.pow and Math.exp are evaluated in fixed point with FixedOne units
\* per 1, every product truncated; ExpTerms terms of the series of exp
FixedOne == 10000
ExpTerms == 14

\* Math.pow(x, k) for x >= 0 in fixed point
RECURSIVE FixPow(_, _)
FixPow(x, k) == IF k = 0 THEN FixedOne ELSE (FixPow(x, k - 1) * x) \div FixedOne

\* the k-th term y^k / k! of the exponential series, in fixed point
RECURSIVE ExpTerm(_, _)
ExpTerm(y, k) == IF k = 0 THEN FixedOne ELSE (ExpTerm(y, k - 1) * y) \div (k * FixedOne)

\* Math.exp(-y) for y >= 0 in fixed point
RECURSIVE ExpNegFrom(_, _)
ExpNegFrom(y, k) ==
  IF k > ExpTerms THEN 0
  ELSE (IF k % 2 = 0 THEN ExpTerm(y, k) ELSE -ExpTerm(y, k)) + ExpNegFrom(y, k + 1)

ExpNeg(y) == Let(y, LAMBDA v : ExpNegFrom(v, 0))

\* the Weibull-like branch: min((1 - exp(-(age/lifespan/scale)^shape)) * 0.95, 0.95)
WeibullFailure(ageMonths, lifespanMonths) ==
  LET scaledAge == (ageMonths * FAILURE_SCALE.d * FixedOne)
                     \div (lifespanMonths * FAILURE_SCALE.n)
      cumulativeFailure == FixedOne - ExpNeg(FixPow(scaledAge, FAILURE_SHAPE))
  IN  RMin(RMul(Frac(cumulativeFailure, FixedOne), Frac(95, 100)), Frac(95, 100))

\* calculateCumulativeFailureRate without the return at the end of the lifespan
calculateCumulativeFailureRate_Uncut(ageMonths, lifespanMonths) ==
  IF ageMonths <= 0 THEN R(0)
  ELSE WeibullFailure(ageMonths, lifespanMonths)

calculateCumulativeFailureRate(ageMonths, lifespanMonths) ==
  IF ageMonths <= 0 THEN R(0)
  ELSE IF ageMonths >= lifespanMonths THEN Frac(95, 100)
  ELSE WeibullFailure(ageMonths, lifespanMonths)

\* ------------------------------------------------------------------------
\* calculateFleetStatuses
\* ------------------------------------------------------------------------

\* context.asicModels.find((m) => m.id === modelId)
FindModel(context, modelId) ==
  LET Match(m) == m.id = modelId IN Find(context.asicModels, Match)

\* context.fleets.find((f) => f.id === fleetId)
FindFleet(context, fleetId) ==
  LET Match(f) == f.id = fleetId IN Find(context.fleets, Match)

\* total miners in a fleet: the unit count, or floor(quantityMW * 1e6 / powerW)
TotalMiners(fleet, model) ==
  IF fleet.quantityMode = "miners"
    THEN fleet.quantityMiners
    ELSE Floor(RDiv(RMul(fleet.quantityMW, R(1000000)), R(model.powerW)))

\* the status of a fleet whose model is not found, its units counted
MissingModelStatus_Counted(fleet) ==
  [fleetId |-> fleet.id, totalMiners |-> fleet.quantityMiners, failedMiners |-> 0,
   activeMiners |-> fleet.quantityMiners]

\* the status of a fleet whose model is not found
MissingModelStatus(fleet) ==
  [fleetId |-> fleet.id, totalMiners |-> 0, failedMiners |-> 0, activeMiners |-> 0]

\* BeyondLifespanStatus with the survivors rounded down
BeyondLifespanStatus_FloorSurvivors(fleet, totalMiners) ==
  [fleetId |-> fleet.id,
   totalMiners |-> totalMiners,
   failedMiners |-> Floor(RMul(R(totalMiners), Frac(95, 100))),
   activeMiners |-> Floor(RMul(R(totalMiners), Frac(5, 100)))]

\* the status at or beyond the lifespan
BeyondLifespanStatus(fleet, totalMiners) ==
  [fleetId |-> fleet.id,
   totalMiners |-> totalMiners,
   failedMiners |-> Floor(RMul(R(totalMiners), Frac(95, 100))),
   activeMiners |-> Ceil(RMul(R(totalMiners), Frac(5, 100)))]

\* the status during the lifespan
InLifeStatus(fleet, totalMiners, failedMiners) ==
  [fleetId |-> fleet.id,
   totalMiners |-> totalMiners,
   failedMiners |-> IF failedMiners < totalMiners THEN failedMiners ELSE totalMiners,
   activeMiners |-> totalMiners
                      - (IF failedMiners < totalMiners THEN failedMiners ELSE totalMiners)]

\* the status of a fleet that is not yet originated
NotOriginatedStatus(fleet, totalMiners) ==
  [fleetId |-> fleet.id, totalMiners |-> totalMiners, failedMiners |-> 0, activeMiners |-> 0]

\* the test that lets a fleet age: isAfter(month, originDate)
IsOriginated(month, originDate) == isAfter(month, originDate)

\* the body of the map callback of calculateFleetStatuses
FleetStatus(fleet, month, context) ==
  Let(FindModel(context, fleet.modelId), LAMBDA found :
    IF found = <<>> THEN MissingModelStatus(fleet)
    ELSE
      Let(TotalMiners(fleet, found[1]), LAMBDA totalMiners :
        LET originDate == NewDate(fleet.originationDate)
            monthsSinceOrigination == differenceInMonths(month, originDate)
            lifespanMonths == fleet.lifespanYears * 12
            cumulativeFailureRate ==
              calculateCumulativeFailureRate(monthsSinceOrigination, lifespanMonths)
        IN  IF IsOriginated(month, originDate)
              THEN (IF monthsSinceOrigination >= lifespanMonths
                      THEN BeyondLifespanStatus(fleet, totalMiners)
                      ELSE Let(Floor(RMul(R(totalMiners), cumulativeFailureRate)),
                               LAMBDA failedMiners :
                                 InLifeStatus(fleet, totalMiners, failedMiners)))
              ELSE NotOriginatedStatus(fleet, totalMiners)))

calculateFleetStatuses(month, context) ==
  [i \in 1..Len(context.fleets) |-> FleetStatus(context.fleets[i], month, context)]

\* ------------------------------------------------------------------------
\* allocateFleetsToTranches
\* ------------------------------------------------------------------------

\* the tranches of the first k sites
RECURSIVE FlatTranchesTo(_, _)
FlatTranchesTo(sites, k) ==
  IF k = 0 THEN <<>> ELSE FlatTranchesTo(sites, k - 1) \o sites[k].tranches

\* context.sites.flatMap((s) => s.tranches)
FlatTranches(sites) == FlatTranchesTo(sites, Len(sites))

\* context.sites.flatMap((s) => s.tranches).find((t) => t.id === trancheId)
FindTranche(context, trancheId) ==
  LET Match(t) == t.id = trancheId IN Find(FlatTranches(context.sites), Match)

\* the tranche is active this month: not isBefore(month, trancheStartDate)
IsLive(tranche, month) == ~isBefore(month, NewDate(tranche.startDate))

\* the power available in the month, the ramp-up starting from 0
AvailablePowerMW_FromZero(tranche, month) ==
  LET monthsSinceStart == differenceInMonths(month, NewDate(tranche.startDate))
      rampUpFraction == IF tranche.rampUpMonths > 0
                          THEN Frac(monthsSinceStart, tranche.rampUpMonths)
                          ELSE R(1)
  IN  IF monthsSinceStart < tranche.rampUpMonths
        THEN RMul(tranche.powerMW, rampUpFraction)
        ELSE tranche.powerMW

\* the power available in the month, considering the linear ramp-up
AvailablePowerMW(tranche, month) ==
  LET monthsSinceStart == differenceInMonths(month, NewDate(tranche.startDate))
      rampUpFraction == IF tranche.rampUpMonths > 0
                          THEN Frac(monthsSinceStart + 1, tranche.rampUpMonths)
                          ELSE R(1)
  IN  IF monthsSinceStart < tranche.rampUpMonths
        THEN RMul(tranche.powerMW, rampUpFraction)
        ELSE tranche.powerMW

\* the statuses pushed for the tranches of one site, in tranche order
SiteTrancheStatuses(site, month) ==
  LET Live(tr) == IsLive(tr, month)
      Status(tr) == [siteId |-> site.id,
                     trancheId |-> tr.id,
                     availablePowerMW |-> AvailablePowerMW(tr, month),
                     allocatedMiners |-> 0,
                     powerUsedMW |-> R(0),
                     hashrateThs |-> R(0)]
  IN  Map(Filter(site.tranches, Live), Status)

\* the statuses pushed for the first k sites
RECURSIVE BuildTrancheStatusesTo(_, _, _)
BuildTrancheStatusesTo(sites, k, month) ==
  IF k = 0 THEN <<>>
  ELSE BuildTrancheStatusesTo(sites, k - 1, month) \o SiteTrancheStatuses(sites[k], month)

\* the list of active tranches, site by site
BuildTrancheStatuses(sites, month) == BuildTrancheStatusesTo(sites, Len(sites), month)

\* CompareTranches of a sort that is left out
CompareTranches_Unordered(a, b, context) == 0

\* the comparator of the sort: difference of the start times of two statuses
CompareTranches(a, b, context) ==
  LET trancheA == FindTranche(context, a.trancheId)
      trancheB == FindTranche(context, b.trancheId)
  IN  IF trancheA = <<>> \/ trancheB = <<>> THEN 0
      ELSE NewDate(trancheA[1].startDate) - NewDate(trancheB[1].startDate)

\* stable insertion of x into the sorted sequence s
RECURSIVE InsertSorted(_, _, _)
InsertSorted(s, x, context) ==
  IF s = <<>> THEN <<x>>
  ELSE IF CompareTranches(s[Len(s)], x, context) <= 0 THEN Append(s, x)
  ELSE Let(SubSeq(s, 1, Len(s) - 1), LAMBDA front :
         Append(InsertSorted(front, x, context), s[Len(s)]))

\* the first k elements of s, sorted
RECURSIVE SortTranchesTo(_, _, _)
SortTranchesTo(s, k, context) ==
  IF k = 0 THEN <<>>
  ELSE Let(SortTranchesTo(s, k - 1, context), LAMBDA sorted :
         InsertSorted(sorted, s[k], context))

\* Array.prototype.sort (stable) with CompareTranches
SortTranches(s, context) == Let(s, LAMBDA v : SortTranchesTo(v, Len(v), context))

\* Map.get(key) || 0 and Map.set(key, value) on allocatedFleets
MapGet(m, k) == IF k \in DOMAIN m THEN m[k] ELSE 0

MapSet(m, k, v) == [x \in (DOMAIN m) \cup {k} |-> IF x = k THEN v ELSE m[x]]

\* AvailableMiners without the allocatedFleets counter
AvailableMiners_NoCounter(fleetStatus, alreadyAllocated) ==
  fleetStatus.activeMiners

\* miners of the fleet not yet allocated this month
AvailableMiners(fleetStatus, alreadyAllocated) ==
  fleetStatus.activeMiners - alreadyAllocated

\* MinersThatFit rounding up
MinersThatFit_Ceil(remainingPowerMW, model) ==
  Ceil(RDiv(RMul(remainingPowerMW, R(1000000)), R(model.powerW)))

\* miners that fit in the remaining power of the tranche
MinersThatFit(remainingPowerMW, model) ==
  Floor(RDiv(RMul(remainingPowerMW, R(1000000)), R(model.powerW)))

\* the uptime applied to the hashrate of a tranche: trancheDetails?.uptime || 1
TrancheUptime(context, trancheId) ==
  LET trancheDetails == FindTranche(context, trancheId)
  IN  IF trancheDetails = <<>> THEN R(1) ELSE OrElse(trancheDetails[1].uptime, R(1))

\* the tranche status after minersToAllocate units of the model are added
AddMiners(tranche, minersToAllocate, model, uptime) ==
  [tranche EXCEPT
     !.allocatedMiners = @ + minersToAllocate,
     !.powerUsedMW = RAdd(@, RDiv(R(minersToAllocate * model.powerW), R(1000000))),
     !.hashrateThs = RAdd(@, RMul(RMul(R(minersToAllocate), model.hashrateThS), uptime))]

\* The body of the inner loop for one assignment.  acc holds the tranche
\* statuses, the allocatedFleets map and, for the analysis only, the list
\* of the allocations made (tranche, fleet, miners).
AllocateAssignment(acc, t, assignment, context, fleetStatuses) ==
  LET tranche == acc.trancheStatuses[t]
      MatchStatus(f) == f.fleetId = assignment.fleetId
      fleetStatus == Find(fleetStatuses, MatchStatus)
      fleet == FindFleet(context, assignment.fleetId)
      model == IF fleet = <<>> THEN <<>> ELSE FindModel(context, fleet[1].modelId)
  IN  IF fleetStatus = <<>> \/ fleetStatus[1].activeMiners = 0 THEN acc
      ELSE IF fleet = <<>> \/ model = <<>> THEN acc
      ELSE
        LET alreadyAllocated == MapGet(acc.allocatedFleets, fleet[1].id)
            availableMiners == AvailableMiners(fleetStatus[1], alreadyAllocated)
            remainingPowerMW == RSub(tranche.availablePowerMW, tranche.powerUsedMW)
            minersThatFit == MinersThatFit(remainingPowerMW, model[1])
            minersToAllocate == IF availableMiners < minersThatFit
                                  THEN availableMiners ELSE minersThatFit
        IN  IF availableMiners <= 0 THEN acc
            ELSE IF minersToAllocate > 0
              THEN [trancheStatuses |->
                      [acc.trancheStatuses EXCEPT
                         ![t] = AddMiners(tranche, minersToAllocate, model[1],
                                          TrancheUptime(context, tranche.trancheId))],
                    allocatedFleets |->
                      MapSet(acc.allocatedFleets, fleet[1].id,
                             alreadyAllocated + minersToAllocate),
                    allocations |->
                      Append(acc.allocations,
                             [trancheId |-> tranche.trancheId,
                              siteId |-> tranche.siteId,
                              fleetId |-> fleet[1].id,
                              miners |-> minersToAllocate])]
              ELSE acc

\* context.fleetAssignments.filter((a) => a.siteId === siteId)
SiteAssignments(context, siteId) ==
  LET Match(a) == a.siteId = siteId IN Filter(context.fleetAssignments, Match)

\* the inner loop over the first k assignments of the tranche's site
RECURSIVE AllocateTranche(_, _, _, _, _, _)
AllocateTranche(acc, t, siteAssignments, k, context, fleetStatuses) ==
  IF k = 0 THEN acc
  ELSE Let(AllocateTranche(acc, t, siteAssignments, k - 1, context, fleetStatuses),
           LAMBDA before :
             AllocateAssignment(before, t, siteAssignments[k], context, fleetStatuses))

\* the outer loop over the first t tranche statuses
RECURSIVE AllocateTranches(_, _, _, _)
AllocateTranches(acc, t, context, fleetStatuses) ==
  IF t = 0 THEN acc
  ELSE Let(AllocateTranches(acc, t - 1, context, fleetStatuses), LAMBDA before :
         Let(SiteAssignments(context, before.trancheStatuses[t].siteId),
             LAMBDA siteAssignments :
               AllocateTranche(before, t, siteAssignments, Len(siteAssignments),
                               context, fleetStatuses)))

VARIABLE
  locals           \* the locals of the latest calculateMonthMetrics call

\* Allocation with an allocatedFleets map that is kept from the month before
Allocation_CarriesCounter(month, context, fleetStatuses) ==
  Let(SortTranches(BuildTrancheStatuses(context.sites, month), context), LAMBDA sorted :
    AllocateTranches([trancheStatuses |-> sorted,
                      allocatedFleets |->
                        IF locals = << >> THEN << >> ELSE locals[1].allocatedFleets,
                      allocations |-> << >>],
                     Len(sorted), context, fleetStatuses))

\* allocateFleetsToTranches, with its local allocatedFleets and the list of
\* allocations next to the returned trancheStatuses
Allocation(month, context, fleetStatuses) ==
  Let(SortTranches(BuildTrancheStatuses(context.sites, month), context), LAMBDA sorted :
    AllocateTranches([trancheStatuses |-> sorted,
                      allocatedFleets |-> << >>,
                      allocations |-> << >>],
                     Len(sorted), context, fleetStatuses))

allocateFleetsToTranches(month, context, fleetStatuses) ==
  Allocation(month, context, fleetStatuses).trancheStatuses

\* ------------------------------------------------------------------------
\* calculateTeamCosts and calculateMinerDepreciation
\* ------------------------------------------------------------------------

\* the cost added for one relevant member
MemberCost(member, month, context) ==
  LET MatchProfile(p) == p.id = member.profileId
      profile == Find(context.teamProfiles, MatchProfile)
  IN  IF isBefore(month, NewDate(member.startDate)) THEN R(0)
      ELSE IF profile = <<>> THEN R(0)
      ELSE RDiv(RMul(profile[1].annualSalary, member.employmentRate), R(12))

\* scopeType is "company", "site" or "tranche"; targetId is "" for the company
calculateTeamCosts(month, context, scopeType, targetId) ==
  LET Relevant(member) ==
        /\ member.scope.type = scopeType
        /\ (scopeType = "company" \/ member.scope.targetId = targetId)
      Cost(member) == MemberCost(member, month, context)
  IN  RSum(Map(Filter(context.teamMembers, Relevant), Cost))

\* the depreciation added for one assignment of the site
AssignmentDepreciation(assignment, month, context) ==
  LET fleet == FindFleet(context, assignment.fleetId)
      model == IF fleet = <<>> THEN <<>> ELSE FindModel(context, fleet[1].modelId)
  IN  IF fleet = <<>> \/ model = <<>> THEN R(0)
      ELSE
        LET originDate == NewDate(fleet[1].originationDate)
            monthsSinceOrigination == differenceInMonths(month, originDate)
            lifespanMonths == fleet[1].lifespanYears * 12
            totalMiners == TotalMiners(fleet[1], model[1])
            totalHashrateTh == RMul(R(totalMiners), model[1].hashrateThS)
            fleetCost == RMul(totalHashrateTh, model[1].pricePerTh)
        IN  IF isBefore(month, originDate) THEN R(0)
            ELSE IF monthsSinceOrigination >= lifespanMonths THEN R(0)
            ELSE RDiv(fleetCost, R(lifespanMonths))

calculateMinerDepreciation(month, siteId, context) ==
  LET Dep(a) == AssignmentDepreciation(a, month, context)
  IN  RSum(Map(SiteAssignments(context, siteId), Dep))

\* ------------------------------------------------------------------------
\* calculateMonthMetrics
\* ------------------------------------------------------------------------

\* context.scenario.monthlyData.find((d) => d.month === monthStr)
EconomicData(context, monthStr) ==
  LET Match(d) == d.month = monthStr IN Find(context.scenario.monthlyData, Match)

\* economicData?.btcPriceUSD || 40000
BtcPriceUSD(economicData) ==
  IF economicData = <<>> THEN R(40000) ELSE OrElse(economicData[1].btcPriceUSD, R(40000))

\* economicData?.globalHashrateEH || 500
GlobalHashrateEH(economicData) ==
  IF economicData = <<>> THEN R(500) ELSE OrElse(economicData[1].globalHashrateEH, R(500))

\* economicData?.txFeesPerBlock || 0.05
TxFeesPerBlock(economicData) ==
  IF economicData = <<>> THEN Frac(5, 100)
  ELSE OrElse(economicData[1].txFeesPerBlock, Frac(5, 100))

\* globalHashrateThS > 0 ? totalHashrateThs / globalHashrateThS : 0
HashrateFraction(totalHashrateThs, globalHashrateThS) ==
  IF RLt(R(0), globalHashrateThS) THEN RDiv(totalHashrateThs, globalHashrateThS) ELSE R(0)

\* (siteHashrate / totalHashrateThs) * amount, without the || 0
SiteShare_Unguarded(siteHashrate, totalHashrateThs, amount) ==
  RMul(RDiv(siteHashrate, totalHashrateThs), amount)

\* (siteHashrate / totalHashrateThs) * amount || 0
SiteShare(siteHashrate, totalHashrateThs, amount) ==
  OrElse(RMul(RDiv(siteHashrate, totalHashrateThs), amount), R(0))

\* the pool fee of a site as the plain mean of the fees of its live tranches
AvgPoolFee_Unweighted(site, siteTranches, siteHashrate) ==
  LET Fee(t) ==
        LET MatchTr(tr) == tr.id = t.trancheId
            tranche == Find(site.tranches, MatchTr)
        IN  IF tranche = <<>> THEN R(0) ELSE OrElse(tranche[1].poolFee, R(0))
  IN  OrElse(RDiv(RSum(Map(siteTranches, Fee)), R(Len(siteTranches))), R(0))

\* the pool fee of a site: average of its tranches weighted by hashrate, || 0
AvgPoolFee(site, siteTranches, siteHashrate) ==
  LET Weighted(t) ==
        LET MatchTr(tr) == tr.id = t.trancheId
            tranche == Find(site.tranches, MatchTr)
        IN  RMul(IF tranche = <<>> THEN R(0) ELSE OrElse(tranche[1].poolFee, R(0)),
                 t.hashrateThs)
  IN  OrElse(RDiv(RSum(Map(siteTranches, Weighted)), siteHashrate), R(0))

\* the result after depreciation
Ebitda_AfterDepreciation(revenue, electricityCost, opexCost, capexDepreciation, minerDepreciation, teamCost) ==
  RSub(revenue, RAdd(RAdd(RAdd(RAdd(electricityCost, opexCost), capexDepreciation),
                          minerDepreciation), teamCost))

\* the EBITDA of a site or of the company
Ebitda(revenue, electricityCost, opexCost, capexDepreciation, minerDepreciation, teamCost) ==
  RSub(revenue, RAdd(RAdd(electricityCost, opexCost), teamCost))

\* the sums over the live tranches of a site and the costs of the site
SiteSums(site, siteTranches, month, context) ==
  LET Hash(t) == t.hashrateThs
      Miners(t) == t.allocatedMiners
      Power(t) == t.powerUsedMW
      TrancheOf(t) == LET MatchTr(tr) == tr.id = t.trancheId
                      IN  Find(site.tranches, MatchTr)
      Electricity(t) ==
        IF TrancheOf(t) = <<>> THEN R(0)
        ELSE RMul(RMul(RMul(t.powerUsedMW, R(1000)), R(HOURS_PER_MONTH)),
                  TrancheOf(t)[1].electricityPricePerKWh)
      Opex(t) ==
        IF TrancheOf(t) = <<>> THEN R(0)
        ELSE RDiv(RSum(TrancheOf(t)[1].opex), R(12))
      Capex(t) ==
        IF TrancheOf(t) = <<>> THEN R(0)
        ELSE RDiv(RSum(TrancheOf(t)[1].capex), R(SITE_CAPEX_DEPRECIATION_YEARS * 12))
      TrancheTeam(t) == calculateTeamCosts(month, context, "tranche", t.trancheId)
  IN  [activeMiners |-> ISum(Map(siteTranches, Miners)),
       powerUsedMW |-> RSum(Map(siteTranches, Power)),
       siteHashrate |-> RSum(Map(siteTranches, Hash)),
       siteElectricityCost |-> RSum(Map(siteTranches, Electricity)),
       siteOpex |-> RSum(Map(siteTranches, Opex)),
       siteCapex |-> RSum(Map(siteTranches, Capex)),
       siteMinerDepreciation |-> calculateMinerDepreciation(month, site.id, context),
       siteTotalTeamCost |-> RAdd(calculateTeamCosts(month, context, "site", site.id),
                                  RSum(Map(siteTranches, TrancheTeam)))]

\* (siteBtcMined + siteTxFees) * (1 - avgPoolFee)
SiteBtcAfterFee(site, siteTranches, siteHashrate, e) ==
  LET siteBtcMined == SiteShare(siteHashrate, e.totalHashrateThs, e.btcMinedGross)
      siteTxFees == SiteShare(siteHashrate, e.totalHashrateThs, e.txFeeRevenueBTC)
      avgPoolFee == AvgPoolFee(site, siteTranches, siteHashrate)
  IN  RMul(RAdd(siteBtcMined, siteTxFees), RSub(R(1), avgPoolFee))

\* the entry pushed to siteMetrics for a site that has live tranches
SiteMetricsEntry(site, siteTranches, month, context, e) ==
  Let(SiteSums(site, siteTranches, month, context), LAMBDA s :
    Let(SiteBtcAfterFee(site, siteTranches, s.siteHashrate, e), LAMBDA siteBtcAfterFee :
      Let(RMul(siteBtcAfterFee, e.btcPriceUSD), LAMBDA siteRevenue :
        [siteId |-> site.id,
         siteName |-> site.name,
         activeMiners |-> s.activeMiners,
         powerUsedMW |-> s.powerUsedMW,
         hashrateThs |-> s.siteHashrate,
         btcMined |-> siteBtcAfterFee,
         revenue |-> siteRevenue,
         electricityCost |-> s.siteElectricityCost,
         opexCost |-> s.siteOpex,
         capexDepreciation |-> s.siteCapex,
         minerDepreciation |-> s.siteMinerDepreciation,
         teamCost |-> s.siteTotalTeamCost,
         totalExpenses |->
           RAdd(RAdd(RAdd(RAdd(s.siteElectricityCost, s.siteOpex), s.siteCapex),
                     s.siteMinerDepreciation), s.siteTotalTeamCost),
         ebitda |-> Ebitda(siteRevenue, s.siteElectricityCost, s.siteOpex, s.siteCapex,
                           s.siteMinerDepreciation, s.siteTotalTeamCost)])))

\* one iteration of the loop over context.sites: acc holds btcAfterPoolFee and
\* siteMetrics
SiteStep(acc, site, trancheStatuses, month, context, e) ==
  LET OfSite(t) == t.siteId = site.id
  IN  Let(Filter(trancheStatuses, OfSite), LAMBDA siteTranches :
        IF Len(siteTranches) = 0 THEN acc
        ELSE Let(SiteMetricsEntry(site, siteTranches, month, context, e), LAMBDA entry :
               [btcAfterPoolFee |-> RAdd(acc.btcAfterPoolFee, entry.btcMined),
                siteMetrics |-> Append(acc.siteMetrics, entry)]))

\* the loop over the first k sites
RECURSIVE SiteLoop(_, _, _, _, _)
SiteLoop(k, trancheStatuses, month, context, e) ==
  IF k = 0 THEN [btcAfterPoolFee |-> R(0), siteMetrics |-> <<>>]
  ELSE Let(SiteLoop(k - 1, trancheStatuses, month, context, e), LAMBDA acc :
         SiteStep(acc, context.sites[k], trancheStatuses, month, context, e))

\* totalExpenses / totalBTC without the test of totalBTC
CostPerBTC_Unguarded(totalExpenses, totalBTC) == RDiv(totalExpenses, totalBTC)

\* totalBTC > 0 ? totalExpenses / totalBTC : 0
CostPerBTC(totalExpenses, totalBTC) ==
  IF RLt(R(0), totalBTC) THEN RDiv(totalExpenses, totalBTC) ELSE R(0)

\* the entry of fleetMetrics for one fleet status
FleetMetricsEntry(fs, context) ==
  LET fleet == FindFleet(context, fs.fleetId)
  IN  [fleetId |-> fs.fleetId,
       modelId |-> IF fleet = <<>> THEN "" ELSE fleet[1].modelId,
       activeMiners |-> fs.activeMiners,
       failedMiners |-> fs.failedMiners]

\* The locals of calculateMonthMetrics up to the site loop: the economic
\* inputs, the fleet statuses, the allocation and the company revenue terms
MonthLocals(month, context) ==
  Let(calculateFleetStatuses(month, context), LAMBDA fleetStatuses :
    Let(Allocation(month, context, fleetStatuses), LAMBDA allocation :
      LET Hash(t) == t.hashrateThs
      IN  Let(RSum(Map(allocation.trancheStatuses, Hash)), LAMBDA totalHashrateThs :
            LET monthStr == format(month)
                economicData == EconomicData(context, monthStr)
                globalHashrateEH == GlobalHashrateEH(economicData)
                txFeesPerBlock == TxFeesPerBlock(economicData)
                blockReward == getBlockReward(month)
                globalHashrateThS == RMul(globalHashrateEH, R(1000000))
                hashrateFraction == HashrateFraction(totalHashrateThs, globalHashrateThS)
            IN  [monthStr |-> monthStr,
                 economicData |-> economicData,
                 btcPriceUSD |-> BtcPriceUSD(economicData),
                 globalHashrateEH |-> globalHashrateEH,
                 txFeesPerBlock |-> txFeesPerBlock,
                 fleetStatuses |-> fleetStatuses,
                 trancheStatuses |-> allocation.trancheStatuses,
                 allocatedFleets |-> allocation.allocatedFleets,
                 allocations |-> allocation.allocations,
                 totalHashrateThs |-> totalHashrateThs,
                 blockReward |-> blockReward,
                 hashrateFraction |-> hashrateFraction,
                 btcMinedGross |->
                   RMul(RMul(hashrateFraction, blockReward), R(BLOCKS_PER_MONTH)),
                 txFeeRevenueBTC |->
                   RMul(RMul(hashrateFraction, txFeesPerBlock), R(BLOCKS_PER_MONTH))])))

\* the company totals: the sums over siteMetrics, with the company team cost
CompanyTotals(siteMetrics, month, context) ==
  LET Elec(s) == s.electricityCost
      Opex(s) == s.opexCost
      Capex(s) == s.capexDepreciation
      MinerDep(s) == s.minerDepreciation
      Team(s) == s.teamCost
  IN  [electricityCost |-> RSum(Map(siteMetrics, Elec)),
       opexCost |-> RSum(Map(siteMetrics, Opex)),
       capexDepreciation |-> RSum(Map(siteMetrics, Capex)),
       minerDepreciation |-> RSum(Map(siteMetrics, MinerDep)),
       teamCost |-> RAdd(RSum(Map(siteMetrics, Team)),
                         calculateTeamCosts(month, context, "company", ""))]

\* spareMiners: the units of the fleets that are neither failed nor allocated
SpareMiners_Unfailed(totalMinersInFleets, totalFailedMiners, totalActiveMiners) ==
  totalMinersInFleets - totalActiveMiners

SpareMiners(totalMinersInFleets, totalFailedMiners, totalActiveMiners) ==
  totalMinersInFleets - totalFailedMiners - totalActiveMiners

\* the record returned by calculateMonthMetrics, from its locals e
MonthRecord(month, context, e) ==
  LET Allocated(t) == t.allocatedMiners
      Failed(f) == f.failedMiners
      Total(f) == f.totalMiners
      totalActiveMiners == ISum(Map(e.trancheStatuses, Allocated))
      totalFailedMiners == ISum(Map(e.fleetStatuses, Failed))
      totalMinersInFleets == ISum(Map(e.fleetStatuses, Total))
      FleetEntry(fs) == FleetMetricsEntry(fs, context)
  IN  Let(SiteLoop(Len(context.sites), e.trancheStatuses, month, context, e), LAMBDA loop :
        Let(CompanyTotals(loop.siteMetrics, month, context), LAMBDA c :
          LET totalBTC == loop.btcAfterPoolFee
              revenueUSD == RMul(totalBTC, e.btcPriceUSD)
              totalExpenses ==
                RAdd(RAdd(RAdd(RAdd(c.electricityCost, c.opexCost), c.capexDepreciation),
                          c.minerDepreciation), c.teamCost)
          IN  [month |-> e.monthStr,
               activeMiners |-> totalActiveMiners,
               failedMiners |-> totalFailedMiners,
               spareMiners |->
                 SpareMiners(totalMinersInFleets, totalFailedMiners, totalActiveMiners),
               totalHashrateThs |-> e.totalHashrateThs,
               btcMined |-> e.btcMinedGross,
               btcAfterPoolFee |-> totalBTC,
               txFeeRevenueBTC |-> e.txFeeRevenueBTC,
               totalBTC |-> totalBTC,
               revenueUSD |-> revenueUSD,
               electricityCost |-> c.electricityCost,
               opexCost |-> c.opexCost,
               capexDepreciation |-> c.capexDepreciation,
               minerDepreciation |-> c.minerDepreciation,
               teamCost |-> c.teamCost,
               totalExpenses |-> totalExpenses,
               ebitda |-> Ebitda(revenueUSD, c.electricityCost, c.opexCost,
                                 c.capexDepreciation, c.minerDepreciation, c.teamCost),
               costPerBTC |-> CostPerBTC(totalExpenses, totalBTC),
               siteMetrics |-> loop.siteMetrics,
               fleetMetrics |-> Map(e.fleetStatuses, FleetEntry)]))

calculateMonthMetrics(month, context) ==
  Let(MonthLocals(month, context), LAMBDA e : MonthRecord(month, context, e))

\* ------------------------------------------------------------------------
\* calculateScenarioMetrics and generateMonthRange as a state machine
\* ------------------------------------------------------------------------

VARIABLES
  context,         \* the CalculationContext passed to calculateScenarioMetrics
  pc,              \* "range": in generateMonthRange, "loop": in the loop over
                   \* months, "done": returned; "reward" and "rewarded":
                   \* before and after a getBlockReward call on its own;
                   \* "failure" and "failed": before and after a
                   \* calculateCumulativeFailureRate call on its own
  current,         \* the local current of generateMonthRange
  months,          \* the months pushed by generateMonthRange
  monthlyMetrics,  \* the records pushed so far
  result,          \* the returned ScenarioResults (<<>> before the return)
  date,            \* the argument of a getBlockReward call
  reward,          \* the value returned by that call (<<>> before the call)
  returned,         \* the results returned by earlier calls of
                   \* calculateScenarioMetrics with the same context
  ageMonths,       \* the arguments of a calculateCumulativeFailureRate call
  lifespanMonths,
  failureRate,     \* the value returned by that call (<<>> before the call)
  db,              \* the object stores of the IndexedDB database
  call,            \* the deleteProject call in progress or just returned
                   \* (<<>> when there is none)
  numbers          \* the tranche and the fleets of an allocation made in
                   \* binary64 arithmetic (<<>> when there is none)

\* the database and the call on it
store == <<db, call>>

\* the variables of the calls made on their own and of the earlier calls
aside == <<returned, ageMonths, lifespanMonths, failureRate, store, numbers>>

\* the database before any record is added
EmptyDb ==
  [projects |-> {}, sites |-> {}, teamMembers |-> {}, fleets |-> {},
   fleetAssignments |-> {}, scenarios |-> {}, settings |-> <<>>]

vars == <<zone, context, pc, current, months, monthlyMetrics, locals, result, date, reward,
          aside>>

\* the loop test of generateMonthRange: current <= end
RangeContinues(cur, end) == cur <= end

RangeEnd == startOfMonth(NewDate(context.project.endDate))

\* one iteration of the while loop of generateMonthRange
GenerateMonthRangeStep ==
  /\ pc = "range"
  /\ RangeContinues(current, RangeEnd)
  /\ months' = Append(months, current)
  /\ current' = addMonths(current, 1)
  /\ UNCHANGED <<aside, zone, context, pc, monthlyMetrics, locals, result, date, reward>>

\* generateMonthRange returns months
GenerateMonthRangeReturn ==
  /\ pc = "range"
  /\ ~RangeContinues(current, RangeEnd)
  /\ pc' = "loop"
  /\ UNCHANGED <<aside, zone, context, current, months, monthlyMetrics, locals, result, date, reward>>

\* the first k tranches of a site in the order of their start dates
RECURSIVE TranchesByStartTo(_, _)
TranchesByStartTo(tranches, k) ==
  IF k = 0 THEN <<>>
  ELSE Let(TranchesByStartTo(tranches, k - 1), LAMBDA sorted :
         LET NotAfter(tr) == NewDate(tr.startDate) <= NewDate(tranches[k].startDate)
             After(tr) == NewDate(tr.startDate) > NewDate(tranches[k].startDate)
         IN  Filter(sorted, NotAfter) \o <<tranches[k]>> \o Filter(sorted, After))

\* CalculateMonth sorting the tranches of the sites of the input in place
CalculateMonth_SortsInput ==
  /\ pc = "loop"
  /\ Len(monthlyMetrics) < Len(months)
  /\ \E month \in {months[Len(monthlyMetrics) + 1]} :
       \E e \in {MonthLocals(month, context)} :
         /\ locals' = <<e>>
         /\ monthlyMetrics' = Append(monthlyMetrics, MonthRecord(month, context, e))
  /\ context' =
       [context EXCEPT !.sites =
          [i \in 1..Len(context.sites) |->
             [context.sites[i] EXCEPT !.tranches = TranchesByStartTo(@, Len(@))]]]
  /\ UNCHANGED <<aside, zone, pc, current, months, result, date, reward>>

\* one iteration of the loop of calculateScenarioMetrics
CalculateMonth ==
  /\ pc = "loop"
  /\ Len(monthlyMetrics) < Len(months)
  /\ \E month \in {months[Len(monthlyMetrics) + 1]} :
       \E e \in {MonthLocals(month, context)} :
         /\ locals' = <<e>>
         /\ monthlyMetrics' = Append(monthlyMetrics, MonthRecord(month, context, e))
  /\ UNCHANGED <<aside, zone, context, pc, current, months, result, date, reward>>

\* calculateScenarioMetrics returns
Return ==
  /\ pc = "loop"
  /\ Len(monthlyMetrics) = Len(months)
  /\ pc' = "done"
  /\ result' = <<[scenarioId |-> context.scenario.id,
                  scenarioName |-> context.scenario.name,
                  monthlyMetrics |-> monthlyMetrics]>>
  /\ UNCHANGED <<aside, zone, context, current, months, monthlyMetrics, locals, date, reward>>

Next ==
  \/ GenerateMonthRangeStep
  \/ GenerateMonthRangeReturn
  \/ CalculateMonth
  \/ Return

\* a call of getBlockReward(date) on its own
GetBlockReward ==
  /\ pc = "reward"
  /\ reward' = <<getBlockReward(date)>>
  /\ pc' = "rewarded"
  /\ UNCHANGED <<aside, zone, context, current, months, monthlyMetrics, locals, result, date>>

NextReward == GetBlockReward

\* a call of calculateCumulativeFailureRate(ageMonths, lifespanMonths) on its own
CalculateFailure ==
  /\ pc = "failure"
  /\ failureRate' = <<calculateCumulativeFailureRate(ageMonths, lifespanMonths)>>
  /\ pc' = "failed"
  /\ UNCHANGED <<zone, context, current, months, monthlyMetrics, locals, result, date, reward,
                 returned, ageMonths, lifespanMonths, store, numbers>>

\* calls of calculateScenarioMetrics made one after the other
MaxCalls == 2

\* calculateScenarioMetrics is called again with the same context: its
\* locals are new, nothing is kept from the call that returned
CallAgain_KeepsMonths ==
  /\ pc = "done"
  /\ Len(returned) < MaxCalls - 1
  /\ returned' = Append(returned, result[1])
  /\ pc' = "range"
  /\ current' = startOfMonth(NewDate(context.project.startDate))
  /\ monthlyMetrics' = <<>>
  /\ locals' = <<>>
  /\ result' = <<>>
  /\ UNCHANGED <<zone, context, months, date, reward, ageMonths, lifespanMonths, failureRate,
                 store, numbers>>

CallAgain ==
  /\ pc = "done"
  /\ Len(returned) < MaxCalls - 1
  /\ returned' = Append(returned, result[1])
  /\ pc' = "range"
  /\ current' = startOfMonth(NewDate(context.project.startDate))
  /\ months' = <<>>
  /\ monthlyMetrics' = <<>>
  /\ locals' = <<>>
  /\ result' = <<>>
  /\ UNCHANGED <<zone, context, date, reward, ageMonths, lifespanMonths, failureRate, store, numbers>>

NextTwice == Next \/ CallAgain

\* the state at the call of calculateScenarioMetrics(c)
InitCall(c) ==
  /\ context = c
  /\ pc = "range"
  /\ current = startOfMonth(NewDate(c.project.startDate))
  /\ months = <<>>
  /\ monthlyMetrics = <<>>
  /\ locals = <<>>
  /\ result = <<>>
  /\ date = 0
  /\ reward = <<>>
  /\ returned = <<>>
  /\ ageMonths = 0
  /\ lifespanMonths = 0
  /\ failureRate = <<>>
  /\ db = EmptyDb
  /\ call = <<>>
  /\ numbers = <<>>

\* ------------------------------------------------------------------------
\* Inputs
\* ------------------------------------------------------------------------

\* bounds of the inputs
Horizon == 4
MaxRamp == 3
MaxMiners == 5

\* the ISO date string of day d of the k-th month counted from January 2028
Ymd(k, d) == <<2028 + ((k - 1) \div 12), ((k - 1) % 12) + 1, d>>

\* w watts as a power in MW
Watts(w) == Frac(w, 1000000)

ModelA == [id |-> "A", name |-> "A", powerW |-> 4000, hashrateThS |-> R(5000000),
           pricePerTh |-> Frac(12, 5000000)]
ModelB == [id |-> "B", name |-> "B", powerW |-> 2000, hashrateThS |-> R(2500000),
           pricePerTh |-> Frac(6, 2500000)]

MkTranche(id, w, start, ramp, uptime, poolFee, capex) ==
  [id |-> id, name |-> id, powerMW |-> Watts(w), startDate |-> start,
   rampUpMonths |-> ramp, uptime |-> uptime,
   capex |-> <<R(capex), R(0), R(0), R(0), R(0), R(120)>>,
   electricityPricePerKWh |-> Frac(5, 100),
   opex |-> <<R(12), R(0), R(0), R(24)>>,
   poolFee |-> poolFee]

MkSite(id, tranches) ==
  [id |-> id, projectId |-> "P", name |-> id, startDate |-> Ymd(1, 1), tranches |-> tranches]

MkFleetMiners(id, modelId, miners, origination, lifespanYears) ==
  [id |-> id, projectId |-> "P", modelId |-> modelId, quantityMode |-> "miners",
   quantityMiners |-> miners, quantityMW |-> R(0),
   originationDate |-> origination, lifespanYears |-> lifespanYears]

MkFleetMW(id, modelId, w, origination, lifespanYears) ==
  [id |-> id, projectId |-> "P", modelId |-> modelId, quantityMode |-> "mw",
   quantityMiners |-> 0, quantityMW |-> Watts(w),
   originationDate |-> origination, lifespanYears |-> lifespanYears]

MkAssignment(id, fleetId, siteId, priority) ==
  [id |-> id, fleetId |-> fleetId, siteId |-> siteId, priority |-> priority]

MkEconomic(month, price, hashrateEH, txFees) ==
  [month |-> month, btcPriceUSD |-> price, globalHashrateEH |-> hashrateEH,
   txFeesPerBlock |-> txFees]

MkMember(id, profileId, scopeType, targetId, start, rate) ==
  [id |-> id, projectId |-> "P", profileId |-> profileId,
   scope |-> [type |-> scopeType, targetId |-> targetId],
   startDate |-> start, employmentRate |-> rate]

MkContext(start, end, monthlyData, sites, fleets, fleetAssignments, teamMembers) ==
  [project |-> [id |-> "P", name |-> "P", startDate |-> start, endDate |-> end],
   scenario |-> [id |-> "SC", projectId |-> "P", name |-> "base",
                 isGenerated |-> FALSE, monthlyData |-> monthlyData],
   sites |-> sites,
   fleets |-> fleets,
   fleetAssignments |-> fleetAssignments,
   teamMembers |-> teamMembers,
   asicModels |-> <<ModelA, ModelB>>,
   teamProfiles |-> <<[id |-> "PR", name |-> "tech", annualSalary |-> R(120)]>>]

\* the lists of fleet assignments tried by the allocation inputs
AssignmentLists ==
  { <<>>,
    <<MkAssignment("a1", "F1", "S1", 0)>>,
    <<MkAssignment("a1", "F2", "S1", 0)>>,
    <<MkAssignment("a1", "F1", "S1", 0), MkAssignment("a2", "F1", "S2", 0)>>,
    <<MkAssignment("a1", "F1", "S1", 0), MkAssignment("a2", "F1", "S1", 1)>>,
    <<MkAssignment("a1", "F2", "S1", 1), MkAssignment("a2", "F1", "S1", 0)>>,
    <<MkAssignment("a1", "F1", "S2", 0), MkAssignment("a2", "F2", "S2", 1),
      MkAssignment("a3", "F1", "S1", 0)>>,
    <<MkAssignment("a1", "F2", "S1", 0), MkAssignment("a2", "F1", "S1", 1),
      MkAssignment("a3", "F1", "S2", 0), MkAssignment("a4", "F2", "S2", 1)>> }

TeamList ==
  << MkMember("m1", "PR", "company", "", Ymd(1, 1), R(1)),
     MkMember("m2", "PR", "site", "S1", Ymd(3, 1), Frac(1, 2)),
     MkMember("m3", "PR", "tranche", "T3", Ymd(2, 1), R(1)) >>

\* the scenario's monthlyData: no record for February 2028, a record for
\* March, a record with a transaction fee of 0 for April and a record with a
\* price and a global hashrate of 0 for May
EconomicList ==
  << MkEconomic(Ymd(3, 1), R(2), R(1), Frac(1, 10)),
     MkEconomic(Ymd(4, 1), R(3), R(2), R(0)),
     MkEconomic(Ymd(5, 1), R(0), R(0), Frac(1, 10)) >>

\* Inputs of the allocation: two sites, three tranches with varying power,
\* start and ramp-up, two fleets with varying size, age and model, and the
\* assignment lists above, over Horizon months from February 2028
AllocContexts ==
  { MkContext(
      Ymd(2, 1), Ymd(1 + Horizon, 1),
      EconomicList,
      << MkSite("S1", << MkTranche("T1", w1, s1, r1, R(1), Frac(2, 100), 120),
                         MkTranche("T2", 6000, Ymd(1, 10), 2, Frac(1, 2), R(0), 0) >>),
         MkSite("S2", << MkTranche("T3", 8000, s3, 0, R(0), Frac(1, 2), 240) >>) >>,
      << MkFleetMiners("F1", "A", q1, o1, 1), f2 >>,
      al, TeamList) :
      w1 \in {14000}, s1 \in {Ymd(1, 10), Ymd(2, 1), Ymd(2, 15)}, r1 \in {0, MaxRamp},
      s3 \in {Ymd(4, 1)},
      q1 \in {2, MaxMiners}, o1 \in {Ymd(-9, 1), Ymd(2, 1), Ymd(3, 10)},
      f2 \in {MkFleetMW("F2", "B", 9000, Ymd(-11, 1), 2),
              MkFleetMiners("F2", "X", 3, Ymd(-11, 1), 2)},
      al \in AssignmentLists }

Init == \E z \in Zones, c \in AllocContexts : zone = z /\ InitCall(c)

Spec == Init /\ [][Next]_vars

\* Inputs of the month range: one site, one fleet, and project start and end
\* dates on the first, inside or on the last day of a month, the end before,
\* in or after the start month
RangeStarts == {Ymd(2, 1), Ymd(2, 15), Ymd(11, 30)}

RangeEnds == {Ymd(1, 1), Ymd(1, 20), Ymd(2, 1), Ymd(2, 28), Ymd(1 + Horizon, 1), Ymd(13, 31)}

RangeContexts ==
  { MkContext(
      start, end, EconomicList,
      << MkSite("S1", << MkTranche("T1", 14000, Ymd(2, 1), 0, R(1), Frac(2, 100), 120) >>) >>,
      << MkFleetMiners("F1", "A", 2, Ymd(-9, 1), 1) >>,
      << MkAssignment("a1", "F1", "S1", 0) >>,
      << >>) :
      start \in RangeStarts, end \in RangeEnds }

InitRange == \E z \in Zones, c \in RangeContexts : zone = z /\ InitCall(c)

SpecRange == InitRange /\ [][Next]_vars

\* calculateScenarioMetrics is sequential code that runs until it returns
FairSpecRange == SpecRange /\ WF_vars(Next)

\* Inputs of the repeated calls: both fleets with units, assigned to both sites
TwiceContexts ==
  { c \in AllocContexts :
      /\ Len(c.fleetAssignments) = 4
      /\ c.fleets[1].quantityMiners = MaxMiners }

InitTwice == \E z \in Zones, c \in TwiceContexts : zone = z /\ InitCall(c)

SpecTwice == InitTwice /\ [][NextTwice]_vars

\* Inputs of calculateCumulativeFailureRate: lifespans in months, of fleets
\* of 1, 2 and 5 years and one that is no multiple of 12, and every age from
\* AgeMargin months before origination to AgeMargin months after the lifespan
Lifespans == {12, 20, 24, 60}

AgeMargin == 2

\* Inputs of the ageing of a fleet: one fleet of one year of life, originated
\* before, at or after the first month of LifeHorizon + 1 months, no site
LifeHorizon == 14

LifeContexts ==
  { MkContext(
      Ymd(2, 1), Ymd(2 + LifeHorizon, 1), EconomicList, << >>,
      << MkFleetMiners("F1", "A", q, o, 1) >>,
      << >>, << >>) :
      q \in {MaxMiners, 4 * MaxMiners}, o \in {Ymd(1, 1), Ymd(2, 1), Ymd(3, 10)} }

InitFailure ==
  \/ \E l \in Lifespans : \E a \in (0 - AgeMargin)..(l + AgeMargin) :
       /\ zone = 0
       /\ context = << >>
       /\ pc = "failure"
       /\ current = 0
       /\ months = << >>
       /\ monthlyMetrics = << >>
       /\ locals = << >>
       /\ result = << >>
       /\ date = 0
       /\ reward = << >>
       /\ returned = << >>
       /\ ageMonths = a
       /\ lifespanMonths = l
       /\ failureRate = << >>
       /\ db = EmptyDb
       /\ call = <<>>
       /\ numbers = <<>>
  \/ \E z \in Zones, c \in LifeContexts : zone = z /\ InitCall(c)

NextFailure == CalculateFailure \/ Next

SpecFailure == InitFailure /\ [][NextFailure]_vars

\* Inputs of the CAPEX depreciation: one site with one tranche of a total
\* CAPEX of 360 that starts in the first month of the project or two months
\* later, with and without ramp-up, no fleet, over CapexHorizon + 1 months
CapexHorizon == 121

CapexContexts ==
  { MkContext(
      Ymd(2, 1), Ymd(2 + CapexHorizon, 1), EconomicList,
      << MkSite("S1", << MkTranche("T1", 14000, start, ramp, R(1), Frac(2, 100), 240) >>) >>,
      << >>, << >>, << >>) :
      start \in {Ymd(2, 1), Ymd(4, 1)}, ramp \in {0, MaxRamp} }

InitCapex == \E z \in Zones, c \in CapexContexts : zone = z /\ InitCall(c)

SpecCapex == InitCapex /\ [][Next]_vars

\* Inputs of the depreciation of a fleet over its whole lifespan: fleet F1
\* (MaxMiners units of model A, lifespan 1 year) that originates in the first
\* month of the project or in the second, two sites with one tranche each,
\* live from the first month, F1 unassigned, assigned to S1, or to S1 and S2;
\* over LifeHorizon + 1 months
DepreciationContexts ==
  { MkContext(
      Ymd(2, 1), Ymd(2 + LifeHorizon, 1), EconomicList,
      << MkSite("S1", << MkTranche("T1", 14000, Ymd(1, 1), 0, R(1), Frac(2, 100), 240) >>),
         MkSite("S2", << MkTranche("T3", 8000, Ymd(1, 1), 0, R(1), R(0), 240) >>) >>,
      << MkFleetMiners("F1", "A", MaxMiners, o, 1) >>,
      a, << >>) :
      o \in {Ymd(2, 1), Ymd(3, 10)},
      a \in { << >>,
              <<MkAssignment("a1", "F1", "S1", 0)>>,
              <<MkAssignment("a1", "F1", "S1", 0), MkAssignment("a2", "F1", "S2", 1)>> } }

InitDepreciation == \E z \in Zones, c \in DepreciationContexts : zone = z /\ InitCall(c)

SpecDepreciation == InitDepreciation /\ [][Next]_vars

\* Inputs of getBlockReward: the day before, the day of and the day after
\* every entry of HALVING_DATES, and days long before and after, each as the
\* Date of the string and as the start of its month
RewardDateStrings ==
  { <<2001, 1, 1>>, <<2008, 12, 31>>, <<2009, 1, 2>>, <<2009, 1, 3>>, <<2009, 1, 4>>,
    <<2012, 11, 27>>, <<2012, 11, 28>>, <<2012, 11, 29>>,
    <<2016, 7, 8>>, <<2016, 7, 9>>, <<2016, 7, 10>>,
    <<2020, 5, 10>>, <<2020, 5, 11>>, <<2020, 5, 12>>,
    <<2024, 4, 18>>, <<2024, 4, 19>>, <<2024, 4, 20>>,
    <<2028, 3, 31>>, <<2028, 4, 1>>, <<2028, 4, 2>>,
    <<2032, 3, 31>>, <<2032, 4, 1>>, <<2032, 4, 2>>, <<2040, 1, 1>> }

InitReward ==
  \E z \in Zones, s \in RewardDateStrings, monthStart \in BOOLEAN :
    /\ zone = z
    /\ context = << >>
    /\ pc = "reward"
    /\ current = 0
    /\ months = << >>
    /\ monthlyMetrics = << >>
    /\ locals = << >>
    /\ result = << >>
    /\ date = IF monthStart THEN startOfMonth(NewDate(s)) ELSE NewDate(s)
    /\ reward = << >>
    /\ returned = << >>
    /\ ageMonths = 0
    /\ lifespanMonths = 0
    /\ failureRate = << >>
    /\ db = EmptyDb
    /\ call = <<>>
    /\ numbers = <<>>

SpecReward == InitReward /\ [][NextReward]_vars

\* ------------------------------------------------------------------------
\* The store: the object stores projects, sites, teamMembers, fleets,
\* fleetAssignments and scenarios, keyed by id, and the settings store with
\* the key currentProjectId. A record is modelled by its key and the ids it
\* refers to. The calls are made one after the other.
\* ------------------------------------------------------------------------

\* the keys tried in each object store
Ids ==
  [projects |-> {"P1", "P2"}, sites |-> {"S1", "S2"}, teamMembers |-> {"m1"},
   fleets |-> {"F1"}, fleetAssignments |-> {"a1", "a2"}, scenarios |-> {"c1"}]

\* the variables of the calculation, which the store does not touch
calculation ==
  <<zone, context, pc, current, months, monthlyMetrics, locals, result, date, reward,
    returned, ageMonths, lifespanMonths, failureRate, numbers>>

\* the keys of the records of an object store
Keys(records) == { r.id : r \in records }

\* index("projectId").getAll(id)
ByProjectId(records, id) == { r \in records : r.projectId = id }

\* no call is in progress
Idle == IF call = <<>> THEN TRUE ELSE call.pc = "returned"

\* db.add(storeName, record): rejected when the key is in the store
Add(storeName, record) ==
  /\ Idle
  /\ record.id \notin Keys(db[storeName])
  /\ db' = [db EXCEPT ![storeName] = @ \cup {record}]
  /\ call' = <<>>
  /\ UNCHANGED calculation

createProject(project) == Add("projects", project)

createSite(site) == Add("sites", site)

createTeamMember(member) == Add("teamMembers", member)

createFleet(fleet) == Add("fleets", fleet)

createFleetAssignment(assignment) == Add("fleetAssignments", assignment)

createScenario(scenario) == Add("scenarios", scenario)

\* db.put("settings", {key: "currentProjectId", value: projectId})
setCurrentProjectId(projectId) ==
  /\ Idle
  /\ db' = [db EXCEPT !.settings = <<projectId>>]
  /\ call' = <<>>
  /\ UNCHANGED calculation

\* setting?.value || null
getCurrentProjectId == db.settings

\* deleteSite(id): the site and the assignments with siteId = id, in one
\* transaction
deleteSite(id) ==
  /\ Idle
  /\ db' = [db EXCEPT
              !.sites = { r \in @ : r.id # id },
              !.fleetAssignments = { a \in @ : a.siteId # id }]
  /\ call' = <<>>
  /\ UNCHANGED calculation

\* deleteFleet(id): the fleet and the assignments with fleetId = id, in one
\* transaction
deleteFleet(id) ==
  /\ Idle
  /\ db' = [db EXCEPT
              !.fleets = { r \in @ : r.id # id },
              !.fleetAssignments = { a \in @ : a.fleetId # id }]
  /\ call' = <<>>
  /\ UNCHANGED calculation

\* the transaction of deleteProject(id): the project, its sites and the
\* assignments with the siteId of one of them, its team members, fleets and
\* scenarios
DeleteProjectTransaction(id) ==
  LET sites == ByProjectId(db.sites, id)
  IN  [db EXCEPT
         !.projects = { r \in @ : r.id # id },
         !.sites = @ \ sites,
         !.fleetAssignments = { a \in @ : a.siteId \notin Keys(sites) },
         !.teamMembers = @ \ ByProjectId(@, id),
         !.fleets = @ \ ByProjectId(@, id),
         !.scenarios = @ \ ByProjectId(@, id)]

\* deleteProject(id) up to 'await tx.done'
deleteProject(id) ==
  /\ Idle
  /\ call' = [id |-> id, pc |-> "settings", before |-> db]
  /\ db' = DeleteProjectTransaction(id)
  /\ UNCHANGED calculation

\* the end of deleteProject: the setting is deleted when it is the id
ClearCurrentProject ==
  /\ call # <<>>
  /\ call.pc = "settings"
  /\ db' = IF getCurrentProjectId = <<call.id>>
             THEN [db EXCEPT !.settings = <<>>]
             ELSE db
  /\ call' = [call EXCEPT !.pc = "returned"]
  /\ UNCHANGED calculation

InitStore ==
  /\ zone = 0
  /\ context = <<>>
  /\ pc = "store"
  /\ current = 0
  /\ months = <<>>
  /\ monthlyMetrics = <<>>
  /\ locals = <<>>
  /\ result = <<>>
  /\ date = 0
  /\ reward = <<>>
  /\ returned = <<>>
  /\ ageMonths = 0
  /\ lifespanMonths = 0
  /\ failureRate = <<>>
  /\ db = EmptyDb
  /\ call = <<>>
  /\ numbers = <<>>

NextStore ==
  \/ \E p \in Ids.projects : createProject([id |-> p])
  \/ \E s \in Ids.sites, p \in Ids.projects : createSite([id |-> s, projectId |-> p])
  \/ \E t \in Ids.teamMembers, p \in Ids.projects : createTeamMember([id |-> t, projectId |-> p])
  \/ \E f \in Ids.fleets, p \in Ids.projects : createFleet([id |-> f, projectId |-> p])
  \/ \E a \in Ids.fleetAssignments, f \in Ids.fleets, s \in Ids.sites :
       createFleetAssignment([id |-> a, fleetId |-> f, siteId |-> s])
  \/ \E c \in Ids.scenarios, p \in Ids.projects : createScenario([id |-> c, projectId |-> p])
  \/ \E p \in Ids.projects : setCurrentProjectId(p)
  \/ \E s \in Ids.sites : deleteSite(s)
  \/ \E f \in Ids.fleets : deleteFleet(f)
  \/ \E p \in Ids.projects : deleteProject(p)
  \/ ClearCurrentProject

SpecStore == InitStore /\ [][NextStore]_vars

\* ------------------------------------------------------------------------
\* The allocation of the fleets of a site to one tranche in the arithmetic
\* of the JavaScript Number type (IEEE-754 binary64, round to nearest, ties
\* to even).  A non-negative integer of any size is the sequence of its
\* limbs, least significant first; a positive Number is [m, e] with the
\* value m * 2^e and a mantissa m of exactly 53 bits, kept in 4 limbs.
\* ------------------------------------------------------------------------

Limb == 2^15

\* the limbs of an integer 0 <= n < 2^31
Big(n) == <<n % Limb, (n \div Limb) % Limb, n \div (Limb * Limb)>>

\* limb i of x
BigLimb(x, i) == IF i <= Len(x) THEN x[i] ELSE 0

RECURSIVE BigToInt(_, _)
\* the integer of the limbs i.. of x (below 2^31)
BigToInt(x, i) == IF i > Len(x) THEN 0 ELSE x[i] + Limb * BigToInt(x, i + 1)

RECURSIVE BigTimesFrom(_, _, _, _)
BigTimesFrom(x, k, i, carry) ==
  IF i > Len(x) THEN (IF carry = 0 THEN <<>> ELSE <<carry>>)
  ELSE <<(x[i] * k + carry) % Limb>>
         \o BigTimesFrom(x, k, i + 1, (x[i] * k + carry) \div Limb)

\* x * k for 0 <= k <= Limb
BigTimes(x, k) == BigTimesFrom(x, k, 1, 0)

RECURSIVE BigDivFrom(_, _, _, _)
BigDivFrom(x, k, i, r) ==
  IF i = 0 THEN <<r>>
  ELSE Append(BigDivFrom(x, k, i - 1, (r * Limb + x[i]) % k), (r * Limb + x[i]) \div k)

\* x divided by k, 0 < k <= Limb: the remainder, then the limbs of the quotient
BigDiv(x, k) == BigDivFrom(x, k, Len(x), 0)

RECURSIVE BigPlusFrom(_, _, _, _)
BigPlusFrom(x, y, i, carry) ==
  IF i > Len(x) /\ i > Len(y) THEN (IF carry = 0 THEN <<>> ELSE <<carry>>)
  ELSE <<(BigLimb(x, i) + BigLimb(y, i) + carry) % Limb>>
         \o BigPlusFrom(x, y, i + 1, (BigLimb(x, i) + BigLimb(y, i) + carry) \div Limb)

BigPlus(x, y) == BigPlusFrom(x, y, 1, 0)

RECURSIVE BigMinusFrom(_, _, _, _)
BigMinusFrom(x, y, i, borrow) ==
  IF i > Len(x) THEN <<>>
  ELSE <<(x[i] - BigLimb(y, i) - borrow + Limb) % Limb>>
         \o BigMinusFrom(x, y, i + 1, IF x[i] - BigLimb(y, i) - borrow < 0 THEN 1 ELSE 0)

\* x - y for x >= y
BigMinus(x, y) == BigMinusFrom(x, y, 1, 0)

RECURSIVE BigLessFrom(_, _, _)
BigLessFrom(x, y, i) ==
  IF i = 0 THEN FALSE
  ELSE IF BigLimb(x, i) # BigLimb(y, i) THEN BigLimb(x, i) < BigLimb(y, i)
  ELSE BigLessFrom(x, y, i - 1)

\* x < y
BigLess(x, y) == BigLessFrom(x, y, IF Len(x) < Len(y) THEN Len(y) ELSE Len(x))

RECURSIVE BigShl(_, _)
\* x * 2^s
BigShl(x, s) ==
  IF s = 0 THEN x
  ELSE IF s <= 15 THEN BigTimes(x, 2^s)
  ELSE BigShl(BigTimes(x, Limb), s - 15)

RECURSIVE BigShr(_, _)
\* x \div 2^s: 1 when bits were shifted out and 0 when none, then the limbs
BigShr(x, s) ==
  IF s = 0 THEN <<0>> \o x
  ELSE IF s <= 15 THEN Let(BigDiv(x, 2^s), LAMBDA d : <<IF d[1] = 0 THEN 0 ELSE 1>> \o Tail(d))
  ELSE Let2(BigDiv(x, Limb), BigShr(Tail(BigDiv(x, Limb)), s - 15),
            LAMBDA d, rest : <<IF d[1] = 0 /\ rest[1] = 0 THEN 0 ELSE 1>> \o Tail(rest))

RECURSIVE BigTop(_, _)
BigTop(x, i) == IF i = 0 THEN 0 ELSE IF x[i] # 0 THEN i ELSE BigTop(x, i - 1)

RECURSIVE IntBits(_)
IntBits(n) == IF n = 0 THEN 0 ELSE 1 + IntBits(n \div 2)

\* the number of bits of x
BigBits(x) ==
  Let(BigTop(x, Len(x)), LAMBDA t : IF t = 0 THEN 0 ELSE 15 * (t - 1) + IntBits(x[t]))

\* the Number 0
NumZero == [m |-> <<0, 0, 0, 0>>, e |-> 0]

\* a mantissa in 4 limbs
Mantissa(x) == <<BigLimb(x, 1), BigLimb(x, 2), BigLimb(x, 3), BigLimb(x, 4)>>

\* x and its successor halved, for a round up that carries into bit 54
RoundUp(q, e) ==
  Let(BigPlus(q, <<1>>),
      LAMBDA r : IF BigBits(r) = 54
                   THEN [m |-> Mantissa(Tail(BigDiv(r, 2))), e |-> e + 1]
                   ELSE [m |-> Mantissa(r), e |-> e])

\* the Number nearest to x * 2^e, or to a value strictly between x * 2^e and
\* (x + 1) * 2^e when inexact (then x has more than 53 bits): ties to even
NumRound(x, e, inexact) ==
  Let(BigBits(x),
      LAMBDA bits :
        IF bits = 0 THEN NumZero
        ELSE IF bits <= 53
          THEN [m |-> Mantissa(BigShl(x, 53 - bits)), e |-> e - (53 - bits)]
        ELSE
          Let2(BigShr(x, bits - 54), BigDiv(Tail(BigShr(x, bits - 54)), 2),
               LAMBDA y, half :
                 IF half[1] = 1 /\ (inexact \/ y[1] = 1 \/ half[2] % 2 = 1)
                   THEN RoundUp(Tail(half), e + bits - 53)
                   ELSE [m |-> Mantissa(Tail(half)), e |-> e + bits - 53]))

\* the Number n / 1_000_000 of an integer 0 <= n < 2^31: the value of the
\* decimal literal, and of the division of two exact integers
NumMillionth(n) ==
  Let2(BigDiv(BigShl(Big(n), 75), 1000),
       BigDiv(Tail(BigDiv(BigShl(Big(n), 75), 1000)), 1000),
       LAMBDA a, b : NumRound(Tail(b), 0 - 75, a[1] # 0 \/ b[1] # 0))

\* a * 1_000_000
NumTimesMillion(a) == NumRound(BigTimes(BigTimes(a.m, 1000), 1000), a.e, FALSE)

\* a / w for an integer 0 < w < 2^15
NumOver(a, w) ==
  Let(BigDiv(BigShl(a.m, 16), w), LAMBDA d : NumRound(Tail(d), a.e - 16, d[1] # 0))

\* Math.floor(a) for 0 <= a < 2^31
NumFloor(a) ==
  IF a = NumZero THEN 0
  ELSE IF a.e >= 0 THEN BigToInt(BigShl(a.m, a.e), 1)
  ELSE BigToInt(Tail(BigShr(a.m, 0 - a.e)), 1)

\* a + b
NumPlus(a, b) ==
  IF a = NumZero THEN b
  ELSE IF b = NumZero THEN a
  ELSE Let(IF a.e < b.e THEN a.e ELSE b.e,
           LAMBDA e : NumRound(BigPlus(BigShl(a.m, a.e - e), BigShl(b.m, b.e - e)), e, FALSE))

\* a - b for a >= b
NumMinus(a, b) ==
  IF b = NumZero THEN a
  ELSE Let(IF a.e < b.e THEN a.e ELSE b.e,
           LAMBDA e : NumRound(BigMinus(BigShl(a.m, a.e - e), BigShl(b.m, b.e - e)), e, FALSE))

\* the value of a, in MW, is less than w watts (a < 1)
NumLessThanWatts(a, w) ==
  a = NumZero \/ BigLess(BigTimes(BigTimes(a.m, 1000), 1000), BigShl(Big(w), 0 - a.e))

\* the most units a tranche is sized for
MaxUnits == 40

\* the power draws of the models tried, in W
PowerWs == {2000, 3250, 3360, 3500}

\* the body of the loop over the assignments of the site for one fleet of
\* activeMiners units of a model of powerW watts, none of them allocated yet
AllocateFleetNumbers(tranche, activeMiners, powerW) ==
  Let(NumFloor(NumOver(NumTimesMillion(NumMinus(tranche.availablePowerMW, tranche.powerUsedMW)),
                       powerW)),
      LAMBDA minersThatFit :
        Let(IF activeMiners < minersThatFit THEN activeMiners ELSE minersThatFit,
            LAMBDA minersToAllocate :
              IF activeMiners = 0 \/ minersToAllocate <= 0 THEN tranche
              ELSE [tranche EXCEPT
                      !.allocatedMiners = @ + minersToAllocate,
                      !.powerUsedMW = NumPlus(@, NumMillionth(minersToAllocate * powerW))]))

\* one turn of the loop over the assignments of the site of the tranche
AllocateNumbers ==
  /\ pc = "numbers"
  /\ numbers.next <= Len(numbers.fleets)
  /\ numbers' =
       Let(AllocateFleetNumbers(numbers.tranche, numbers.fleets[numbers.next], numbers.powerW),
           LAMBDA after :
             [numbers EXCEPT
                !.tranche = after,
                !.allocated = Append(@, after.allocatedMiners - numbers.tranche.allocatedMiners),
                !.next = @ + 1])
  /\ UNCHANGED <<zone, context, pc, current, months, monthlyMetrics, locals, result, date,
                 reward, returned, ageMonths, lifespanMonths, failureRate, store>>

\* a live tranche of powerMW = units x powerW / 1_000_000, written with at
\* most six decimals, without ramp-up, and two fleets of one model of powerW
\* watts assigned to its site that have units active units together
InitNumbers ==
  \E units \in 1..MaxUnits, powerW \in PowerWs, first \in 0..1 :
    /\ zone = 0
    /\ context = <<>>
    /\ pc = "numbers"
    /\ current = 0
    /\ months = <<>>
    /\ monthlyMetrics = <<>>
    /\ locals = <<>>
    /\ result = <<>>
    /\ date = 0
    /\ reward = <<>>
    /\ returned = <<>>
    /\ ageMonths = 0
    /\ lifespanMonths = 0
    /\ failureRate = <<>>
    /\ db = EmptyDb
    /\ call = <<>>
    /\ numbers = [tranche |-> [availablePowerMW |-> NumMillionth(units * powerW),
                               powerUsedMW |-> NumZero,
                               allocatedMiners |-> 0],
                  powerW |-> powerW,
                  fleets |-> <<units - first, first>>,
                  allocated |-> <<>>,
                  next |-> 1]

SpecNumbers == InitNumbers /\ [][AllocateNumbers]_vars

\* ------------------------------------------------------------------------
\* Properties
\* ------------------------------------------------------------------------

\* the locals of the latest month, once a month has been calculated
Calculated == locals # <<>>

\* the units of the list of allocations that satisfy P
AllocatedWhere(allocations, P(_)) ==
  LET Units(a) == a.miners IN ISum(Map(Filter(allocations, P), Units))

\* C1: in every month, the units of a fleet allocated over all live tranches
\* of all sites are between 0 and the fleet's activeMiners, every allocation
\* is of at least one unit, and the units counted in the tranches are exactly
\* the units taken from the fleets, so no unit is in two tranches.
C1_AllocationConservation ==
  Calculated =>
    LET e == locals[1]
        All(a) == TRUE
        Allocated(t) == t.allocatedMiners
    IN  /\ \A i \in 1..Len(e.fleetStatuses) :
             LET fs == e.fleetStatuses[i]
                 OfFleet(a) == a.fleetId = fs.fleetId
                 units == AllocatedWhere(e.allocations, OfFleet)
             IN  units >= 0 /\ units <= fs.activeMiners
        /\ \A j \in 1..Len(e.allocations) : e.allocations[j].miners > 0
        /\ \A t \in 1..Len(e.trancheStatuses) :
             LET OfTranche(a) == a.trancheId = e.trancheStatuses[t].trancheId
             IN  e.trancheStatuses[t].allocatedMiners
                   = AllocatedWhere(e.allocations, OfTranche)
        /\ ISum(Map(e.trancheStatuses, Allocated)) = AllocatedWhere(e.allocations, All)

\* C1 witness: a fleet assigned to two sites, or twice to one site, has units
\* in two tranches and all its active units are allocated.
C1_Witness ==
  /\ Calculated
  /\ \E i \in 1..Len(locals[1].fleetStatuses) :
       LET e == locals[1]
           fs == e.fleetStatuses[i]
           OfFleet(a) == a.fleetId = fs.fleetId
           OfFleetAssignment(a) == a.fleetId = fs.fleetId
       IN  /\ Len(Filter(context.fleetAssignments, OfFleetAssignment)) >= 2
           /\ \E j, k \in 1..Len(e.allocations) :
                /\ e.allocations[j].fleetId = fs.fleetId
                /\ e.allocations[k].fleetId = fs.fleetId
                /\ e.allocations[j].trancheId # e.allocations[k].trancheId
           /\ AllocatedWhere(e.allocations, OfFleet) = fs.activeMiners

\* the model of a fleet (the code's context.asicModels.find), for the formulas
ModelOfFleet(fleetId) ==
  LET fleet == FindFleet(context, fleetId)
  IN  IF fleet = <<>> THEN <<>> ELSE FindModel(context, fleet[1].modelId)

\* the power in MW drawn by the allocations of the list that satisfy P
PowerWhere(allocations, P(_)) ==
  LET Draw(a) == RDiv(R(a.miners * ModelOfFleet(a.fleetId)[1].powerW), R(1000000))
  IN  RSum(Map(Filter(allocations, P), Draw))

UnitsOf(fleet) == TotalMiners(fleet, FindModel(context, fleet.modelId)[1])

\* C3 as stated: for every fleet and every month, before origination
\* included, totalMiners = failedMiners + activeMiners, all three being
\* non-negative integers.
C3_UnitConservationEveryMonth ==
  Calculated =>
    \A i \in 1..Len(locals[1].fleetStatuses) :
      LET fs == locals[1].fleetStatuses[i]
      IN  /\ fs.totalMiners \in Nat /\ fs.failedMiners \in Nat /\ fs.activeMiners \in Nat
          /\ fs.totalMiners = fs.failedMiners + fs.activeMiners

\* C3 amended: the three values are non-negative integers in every month;
\* in every month that starts strictly after the fleet's origination instant
\* (during life and at or beyond lifespan) totalMiners = failedMiners +
\* activeMiners; in a month that starts at or before that instant totalMiners
\* is the fleet's unit count while failedMiners = activeMiners = 0.
C3_UnitConservation ==
  Calculated =>
    \A i \in 1..Len(locals[1].fleetStatuses) :
      LET fs == locals[1].fleetStatuses[i]
          fleet == context.fleets[i]
          month == months[Len(monthlyMetrics)]
      IN  /\ fs.fleetId = fleet.id
          /\ fs.totalMiners \in Nat /\ fs.failedMiners \in Nat /\ fs.activeMiners \in Nat
          /\ FindModel(context, fleet.modelId) # <<>> =>
               IF NewDate(fleet.originationDate) < month
                 THEN /\ fs.totalMiners = UnitsOf(fleet)
                      /\ fs.totalMiners = fs.failedMiners + fs.activeMiners
                 ELSE /\ fs.totalMiners = UnitsOf(fleet)
                      /\ fs.failedMiners = 0
                      /\ fs.activeMiners = 0

\* C3 witness: one fleet is beyond its lifespan with failed and surviving
\* units, and the month before it was in life with failed units.
C3_Witness ==
  /\ Calculated
  /\ Len(monthlyMetrics) >= 2
  /\ \E i \in 1..Len(locals[1].fleetStatuses) :
       LET fs == locals[1].fleetStatuses[i]
           fleet == context.fleets[i]
           month == months[Len(monthlyMetrics)]
           before == monthlyMetrics[Len(monthlyMetrics) - 1].fleetMetrics[i]
       IN  /\ differenceInMonths(month, NewDate(fleet.originationDate))
                = fleet.lifespanYears * 12
           /\ fs.failedMiners > 0
           /\ fs.activeMiners > 0
           /\ before.failedMiners > 0
           /\ before.failedMiners < fs.failedMiners

\* the record and the month of the latest calculateMonthMetrics call
LatestRecord == monthlyMetrics[Len(monthlyMetrics)]

LatestMonth == months[Len(monthlyMetrics)]

\* the numbers of a MonthlyFinancialMetrics record and of a site entry
RecordNumbers(r) ==
  { r.totalHashrateThs, r.btcMined, r.btcAfterPoolFee, r.txFeeRevenueBTC, r.totalBTC,
    r.revenueUSD, r.electricityCost, r.opexCost, r.capexDepreciation,
    r.minerDepreciation, r.teamCost, r.totalExpenses, r.ebitda, r.costPerBTC }

SiteNumbers(sm) ==
  { sm.powerUsedMW, sm.hashrateThs, sm.btcMined, sm.revenue, sm.electricityCost,
    sm.opexCost, sm.capexDepreciation, sm.minerDepreciation, sm.teamCost,
    sm.totalExpenses, sm.ebitda }

\* C4: in every month the company's totalBTC is the sum of the btcMined of
\* the entries of siteMetrics; no number of the record or of a site entry is
\* NaN; in a month where the owned hashrate is 0, totalBTC and every site's
\* btcMined are 0.
C4_RevenueIdentity ==
  Calculated =>
    LET r == LatestRecord
        Btc(sm) == sm.btcMined
    IN  /\ r.totalBTC = RSum(Map(r.siteMetrics, Btc))
        /\ \A x \in RecordNumbers(r) : ~IsNaN(x)
        /\ \A j \in 1..Len(r.siteMetrics) :
             \A x \in SiteNumbers(r.siteMetrics[j]) : ~IsNaN(x)
        /\ r.totalHashrateThs = R(0) =>
             /\ r.totalBTC = R(0)
             /\ \A j \in 1..Len(r.siteMetrics) : r.siteMetrics[j].btcMined = R(0)

\* C4 witness: the latest month has two sites that both mined, after a month
\* in which tranches were live without any hashrate.
C4_Witness ==
  /\ Calculated
  /\ Len(LatestRecord.siteMetrics) = 2
  /\ \A j \in 1..2 : RLt(R(0), LatestRecord.siteMetrics[j].btcMined)
  /\ \E i \in 1..Len(monthlyMetrics) :
       /\ monthlyMetrics[i].totalHashrateThs = R(0)
       /\ Len(monthlyMetrics[i].siteMetrics) >= 1

\* the context with dearer site CAPEX and dearer hardware
DearerContext(c) ==
  LET DearerTranche(tr) ==
        [tr EXCEPT !.capex = [k \in 1..Len(tr.capex) |-> RAdd(tr.capex[k], R(60))]]
      DearerSite(site) == [site EXCEPT !.tranches = Map(site.tranches, DearerTranche)]
      DearerModel(model) == [model EXCEPT !.pricePerTh = RMul(model.pricePerTh, R(3))]
  IN  [c EXCEPT !.sites = Map(c.sites, DearerSite),
                !.asicModels = Map(c.asicModels, DearerModel)]

MonthsSince(startDate, month) ==
  Cardinality({j \in 1..(Horizon + 2) : month - j * MonthTicks >= NewDate(startDate)})

SuppliedEconomics ==
  LET Match(d) == d.month = locals[1].monthStr
  IN  Find(context.scenario.monthlyData, Match)

\* C9 as stated: the defaults 40000, 500 and 0.05 are used only in a month
\* without a monthlyData record; with a record, its btcPriceUSD,
\* globalHashrateEH and txFeesPerBlock are used as supplied, a supplied 0
\* included, and a transaction fee of 0 gives txFeeRevenueBTC = 0.
C9_EconomicsAsSupplied ==
  Calculated =>
    LET e == locals[1]
        supplied == SuppliedEconomics
    IN  IF supplied = <<>>
          THEN /\ e.btcPriceUSD = R(40000)
               /\ e.globalHashrateEH = R(500)
               /\ e.txFeesPerBlock = Frac(5, 100)
          ELSE /\ e.btcPriceUSD = supplied[1].btcPriceUSD
               /\ e.globalHashrateEH = supplied[1].globalHashrateEH
               /\ e.txFeesPerBlock = supplied[1].txFeesPerBlock
               /\ supplied[1].txFeesPerBlock = R(0) =>
                    LatestRecord.txFeeRevenueBTC = R(0)

\* the context without the fleet
WithoutFleet(c, fleetId) ==
  LET Other(f) == f.id # fleetId IN [c EXCEPT !.fleets = Filter(c.fleets, Other)]

\* C10: a fleet whose modelId matches no model has the status 0, 0, 0 in
\* every month and no allocation, and the tranche statuses and the month's
\* record, its own fleetMetrics entry apart, are those calculated for the
\* input without that fleet.
C10_MissingModel ==
  Calculated =>
    \A i \in 1..Len(context.fleets) :
      LET fleet == context.fleets[i]
          Other(f) == f.fleetId # fleet.id
      IN  FindModel(context, fleet.modelId) = <<>> =>
            Let(MonthLocals(LatestMonth, WithoutFleet(context, fleet.id)), LAMBDA absent :
              /\ locals[1].fleetStatuses[i] =
                   [fleetId |-> fleet.id, totalMiners |-> 0, failedMiners |-> 0,
                    activeMiners |-> 0]
              /\ \A j \in 1..Len(locals[1].allocations) :
                   locals[1].allocations[j].fleetId # fleet.id
              /\ locals[1].trancheStatuses = absent.trancheStatuses
              /\ Filter(locals[1].fleetStatuses, Other) = absent.fleetStatuses
              /\ [LatestRecord EXCEPT
                    !.fleetMetrics = Filter(LatestRecord.fleetMetrics, Other)]
                   = MonthRecord(LatestMonth, WithoutFleet(context, fleet.id), absent)
              /\ LatestRecord.fleetMetrics[i].activeMiners = 0
              /\ LatestRecord.fleetMetrics[i].failedMiners = 0)

\* C10 witness: a fleet with units and an unknown model is assigned first to
\* a site where a tranche has power left, and units of the other fleet are
\* allocated in that site.
C10_Witness ==
  /\ Calculated
  /\ \E i \in 1..Len(context.fleets) :
       LET fleet == context.fleets[i]
       IN  /\ FindModel(context, fleet.modelId) = <<>>
           /\ fleet.quantityMiners > 0
           /\ Len(context.fleetAssignments) >= 1
           /\ context.fleetAssignments[1].fleetId = fleet.id
           /\ \E t \in 1..Len(locals[1].trancheStatuses) :
                LET ts == locals[1].trancheStatuses[t]
                IN  /\ ts.siteId = context.fleetAssignments[1].siteId
                    /\ ts.allocatedMiners > 0
                    /\ RLe(Watts(ModelA.powerW), RSub(ts.availablePowerMW, ts.powerUsedMW))

\* the fleet has no FleetAssignment
IsUnassigned(c, fleetId) ==
  \A k \in 1..Len(c.fleetAssignments) : c.fleetAssignments[k].fleetId # fleetId

\* spareMiners of the month whose locals are e
SpareOfLocals(e) ==
  LET Allocated(t) == t.allocatedMiners
      Failed(f) == f.failedMiners
      Total(f) == f.totalMiners
  IN  SpareMiners(ISum(Map(e.fleetStatuses, Total)), ISum(Map(e.fleetStatuses, Failed)),
                  ISum(Map(e.trancheStatuses, Allocated)))

\* C11: in every month, a fleet with no FleetAssignment has no allocated
\* unit in any tranche, the tranche statuses (units, power, hashrate) are
\* those calculated for the input without the fleet, and spareMiners exceeds
\* the spareMiners of the input without the fleet by at least the fleet's
\* activeMiners, and by exactly its activeMiners once the fleet is originated.
C11_UnassignedIsIdle ==
  Calculated =>
    \A i \in 1..Len(context.fleets) :
      LET fleet == context.fleets[i]
          fs == locals[1].fleetStatuses[i]
      IN  IsUnassigned(context, fleet.id) =>
            Let(MonthLocals(LatestMonth, WithoutFleet(context, fleet.id)), LAMBDA absent :
              /\ \A j \in 1..Len(locals[1].allocations) :
                   locals[1].allocations[j].fleetId # fleet.id
              /\ locals[1].trancheStatuses = absent.trancheStatuses
              /\ LatestRecord.spareMiners = SpareOfLocals(locals[1])
              /\ LatestRecord.spareMiners - SpareOfLocals(absent) >= fs.activeMiners
              /\ IsOriginated(LatestMonth, NewDate(fleet.originationDate)) =>
                   LatestRecord.spareMiners - SpareOfLocals(absent) = fs.activeMiners)

\* C11 witness: a fleet with no FleetAssignment has failed units and active
\* units while units of the other fleet are allocated.
C11_Witness ==
  /\ Calculated
  /\ \E i \in 1..Len(context.fleets) :
       LET fs == locals[1].fleetStatuses[i]
       IN  /\ IsUnassigned(context, fs.fleetId)
           /\ fs.activeMiners > 0
           /\ fs.failedMiners > 0
           /\ LatestRecord.activeMiners > 0

C13_InputsUnchanged == [][context' = context]_vars

\* C13 witness: the call has returned; in its last month the statuses were
\* sorted into another order than the tranches have in their site, units
\* were accumulated in them, and the site still lists its tranches as given.
C13_Witness ==
  /\ pc = "done"
  /\ Calculated
  /\ Len(locals[1].trancheStatuses) >= 2
  /\ locals[1].trancheStatuses[1].trancheId = "T2"
  /\ locals[1].trancheStatuses[2].trancheId = "T1"
  /\ locals[1].trancheStatuses[1].allocatedMiners > 0
  /\ context.sites[1].tranches[1].id = "T1"
  /\ context.sites[1].tranches[2].id = "T2"

\* the call of calculateCumulativeFailureRate has returned
Failed == pc = "failed" /\ failureRate # <<>>

\* a failure rate in units of 1 / (100 * FixedOne), the grain of the rates
RateUnits(r) == r.n * ((100 * FixedOne) \div r.d)

C15_CurveShape ==
  Failed =>
    /\ 10 * ageMonths = 8 * lifespanMonths => RateUnits(failureRate[1]) < 5 * FixedOne
    /\ 100 * ageMonths = 95 * lifespanMonths => RateUnits(failureRate[1]) > 20 * FixedOne

\* the part of C15 that the code satisfies: above 0.20 at 0.95 times the
\* lifespan
C15_LateLifeAboveFifth ==
  Failed =>
    (100 * ageMonths = 95 * lifespanMonths => RateUnits(failureRate[1]) > 20 * FixedOne)

\* the first k assignments in ascending priority, equal priorities in the
\* order of the list
RECURSIVE ByPriorityTo(_, _)
ByPriorityTo(assignments, k) ==
  IF k = 0 THEN <<>>
  ELSE Let(ByPriorityTo(assignments, k - 1), LAMBDA sorted :
         LET NotAfter(a) == a.priority <= assignments[k].priority
             After(a) == a.priority > assignments[k].priority
         IN  Filter(sorted, NotAfter) \o <<assignments[k]>> \o Filter(sorted, After))

\* the context with its fleetAssignments in ascending priority
ByPriority(c) ==
  [c EXCEPT !.fleetAssignments = ByPriorityTo(@, Len(@))]

\* C16 as stated: in every month the tranches hold the units, power and
\* hashrate, and the fleets have the units allocated, that result from
\* serving the assignments of each site in ascending priority, whatever the
\* order of the fleetAssignments list.
C16_PriorityOrder ==
  Calculated =>
    Let(MonthLocals(LatestMonth, ByPriority(context)), LAMBDA ranked :
      /\ locals[1].trancheStatuses = ranked.trancheStatuses
      /\ {locals[1].allocations[j] : j \in 1..Len(locals[1].allocations)}
           = {ranked.allocations[j] : j \in 1..Len(ranked.allocations)})

\* the start instant of the tranche of a status, and the position of the
\* tranche in the input (site by site, tranche by tranche)
StartOf(status) == NewDate(FindTranche(context, status.trancheId)[1].startDate)

InputPosition(status) ==
  LET flat == FlatTranches(context.sites)
  IN  CHOOSE k \in 1..Len(flat) : flat[k].id = status.trancheId

\* the fleet has an assignment to the site
IsAssigned(fleetId, siteId) ==
  \E k \in 1..Len(context.fleetAssignments) :
    /\ context.fleetAssignments[k].fleetId = fleetId
    /\ context.fleetAssignments[k].siteId = siteId

C17_EqualStartReached ==
  /\ Calculated
  /\ LET ts == locals[1].trancheStatuses
     IN  \E p, q \in 1..Len(ts) :
           /\ p < q
           /\ ts[p].allocatedMiners > 0
           /\ ts[q].allocatedMiners > 0
           /\ StartOf(ts[p]) = StartOf(ts[q])

\* the calendar date a is before the calendar date b
DateStringBefore(a, b) ==
  \/ a[1] < b[1]
  \/ a[1] = b[1] /\ a[2] < b[2]
  \/ a[1] = b[1] /\ a[2] = b[2] /\ a[3] < b[3]

\* C18 as stated: in every month, a fleet with units and a model has 0
\* active units only if the month is before its origination date; in the
\* month that is its origination date it has failedMiners = 0 and
\* activeMiners = totalMiners; and in a later month before the end of its
\* lifespan failedMiners = min(totalMiners, floor(totalMiners x failure
\* rate of its age)) and activeMiners = totalMiners - failedMiners.
C18_DeployedFromOrigination ==
  Calculated =>
    \A i \in 1..Len(context.fleets) :
      LET fleet == context.fleets[i]
          fs == locals[1].fleetStatuses[i]
          monthStr == locals[1].monthStr
          age == differenceInMonths(LatestMonth, NewDate(fleet.originationDate))
          failed == Floor(RMul(R(fs.totalMiners),
                               calculateCumulativeFailureRate(age, fleet.lifespanYears * 12)))
      IN  (FindModel(context, fleet.modelId) # <<>> /\ fs.totalMiners > 0) =>
            /\ fs.activeMiners = 0 => DateStringBefore(monthStr, fleet.originationDate)
            /\ monthStr = fleet.originationDate =>
                 fs.failedMiners = 0 /\ fs.activeMiners = fs.totalMiners
            /\ (DateStringBefore(fleet.originationDate, monthStr)
                  /\ age < fleet.lifespanYears * 12) =>
                 /\ fs.failedMiners = (IF failed < fs.totalMiners THEN failed
                                                                 ELSE fs.totalMiners)
                 /\ fs.activeMiners = fs.totalMiners - fs.failedMiners

\* C19 as stated: in every month spareMiners is the sum of the fleets'
\* activeMiners less the sum of the tranches' allocatedMiners, and is not
\* negative, so that the units of a fleet that is not yet originated are
\* not in it.
C19_SpareIsActiveLessAllocated ==
  Calculated =>
    LET Active(f) == f.activeMiners
        Allocated(t) == t.allocatedMiners
    IN  /\ LatestRecord.spareMiners
             = ISum(Map(locals[1].fleetStatuses, Active))
                 - ISum(Map(locals[1].trancheStatuses, Allocated))
        /\ LatestRecord.spareMiners >= 0

\* what the code satisfies instead of C19: spareMiners is not negative, and
\* it is the active units less the allocated units plus all units of the
\* fleets that are not yet originated.
C19_SpareCountsUndeployed ==
  Calculated =>
    LET Active(f) == f.activeMiners
        Allocated(t) == t.allocatedMiners
        Undeployed(f) == IF f.activeMiners = 0 /\ f.failedMiners = 0 THEN f.totalMiners ELSE 0
    IN  /\ LatestRecord.spareMiners
             = ISum(Map(locals[1].fleetStatuses, Active))
                 - ISum(Map(locals[1].trancheStatuses, Allocated))
                 + ISum(Map(locals[1].fleetStatuses, Undeployed))
        /\ LatestRecord.spareMiners >= 0

\* the context with the uptime of every tranche replaced by 1
FullUptime(c) ==
  [c EXCEPT !.sites =
     [i \in 1..Len(c.sites) |->
        [c.sites[i] EXCEPT !.tranches =
           [k \in 1..Len(c.sites[i].tranches) |->
              [c.sites[i].tranches[k] EXCEPT !.uptime = R(1)]]]]]

\* the hashrate of the allocations of the list that satisfy P, at the uptime
HashrateWhere(allocations, P(_), uptime) ==
  LET Rate(a) == RMul(RMul(R(a.miners), ModelOfFleet(a.fleetId)[1].hashrateThS), uptime)
  IN  RSum(Map(Filter(allocations, P), Rate))

\* C20 as stated: in every month and for every live tranche, hashrateThs
\* is the sum over its allocations of units times model hashrateThS times
\* the tranche's uptime, allocatedMiners and powerUsedMW are those of the
\* same input with every uptime set to 1, and a tranche with uptime 0 has
\* hashrateThs 0.
C20_UptimeDerates ==
  Calculated =>
    Let(MonthLocals(LatestMonth, FullUptime(context)), LAMBDA full :
      \A t \in 1..Len(locals[1].trancheStatuses) :
        LET ts == locals[1].trancheStatuses[t]
            uptime == FindTranche(context, ts.trancheId)[1].uptime
            OfTranche(a) == a.trancheId = ts.trancheId
        IN  /\ ts.hashrateThs = HashrateWhere(locals[1].allocations, OfTranche, uptime)
            /\ ts.allocatedMiners = full.trancheStatuses[t].allocatedMiners
            /\ ts.powerUsedMW = full.trancheStatuses[t].powerUsedMW
            /\ uptime = R(0) => ts.hashrateThs = R(0))

\* what the code satisfies instead of C20: the claim for every tranche with
\* an uptime other than 0; a tranche with uptime 0 has the hashrate of an
\* uptime of 1.
C20_UptimeZeroIsFull ==
  Calculated =>
    Let(MonthLocals(LatestMonth, FullUptime(context)), LAMBDA full :
      \A t \in 1..Len(locals[1].trancheStatuses) :
        LET ts == locals[1].trancheStatuses[t]
            uptime == FindTranche(context, ts.trancheId)[1].uptime
            OfTranche(a) == a.trancheId = ts.trancheId
        IN  /\ ts.hashrateThs
                 = HashrateWhere(locals[1].allocations, OfTranche, OrElse(uptime, R(1)))
            /\ ts.allocatedMiners = full.trancheStatuses[t].allocatedMiners
            /\ ts.powerUsedMW = full.trancheStatuses[t].powerUsedMW)

\* a tranche with an uptime of one half holds units in the month
C20_HalfUptimeReached ==
  /\ Calculated
  /\ \E t \in 1..Len(locals[1].trancheStatuses) :
       LET ts == locals[1].trancheStatuses[t]
       IN  /\ FindTranche(context, ts.trancheId)[1].uptime = Frac(1, 2)
           /\ ts.allocatedMiners > 0

\* the months of the returned records
RecordMonths(metrics) == [k \in 1..Len(metrics) |-> metrics[k].month]

\* the calendar months from the month of startDate to the month of endDate
CalendarMonths(startDate, endDate) ==
  LET first == startDate[1] * 12 + startDate[2] - 1
      last == endDate[1] * 12 + endDate[2] - 1
  IN  [k \in 1..(IF last >= first THEN last - first + 1 ELSE 0) |->
         <<(first + k - 1) \div 12, ((first + k - 1) % 12) + 1, 1>>]

\* C6 as stated: calculateScenarioMetrics terminates, and the returned
\* records are one per calendar month from the month of the project's start
\* date to the month of its end date inclusive, in increasing order; none
\* when the end month is before the start month.
C6_OneRecordPerMonth ==
  <>[](/\ pc = "done"
       /\ result # << >>
       /\ RecordMonths(result[1].monthlyMetrics)
            = CalendarMonths(context.project.startDate, context.project.endDate))

\* the reward of the latest entry of HALVING_DATES that is not after the date
LatestEntryReward(d) ==
  LET earlier == {i \in 1..Len(HALVING_DATES) : HALVING_DATES[i].date <= d}
      latest == CHOOSE i \in earlier :
                  \A j \in earlier : HALVING_DATES[j].date <= HALVING_DATES[i].date
  IN  IF earlier = {} THEN R(50) ELSE HALVING_DATES[latest].reward

\* C8: getBlockReward(date) is the reward of the latest entry of
\* HALVING_DATES whose date is not after the date, the date of the entry
\* included; it is 50 before the first entry; it is not larger than the
\* reward of any earlier date; it is 6.25 on 2024-04-18 and 3.125 on
\* 2024-04-19.
C8_BlockReward ==
  pc = "rewarded" =>
    /\ reward[1] = LatestEntryReward(date)
    /\ date < HALVING_DATES[1].date => reward[1] = R(50)
    /\ \A i \in 1..Len(HALVING_DATES) :
         date = HALVING_DATES[i].date => reward[1] = HALVING_DATES[i].reward
    /\ \A s \in RewardDateStrings :
         /\ NewDate(s) <= date => RLe(reward[1], getBlockReward(NewDate(s)))
         /\ NewDate(s) >= date => RLe(getBlockReward(NewDate(s)), reward[1])
    /\ date = NewDate(<<2024, 4, 18>>) => reward[1] = Frac(625, 100)
    /\ date = NewDate(<<2024, 4, 19>>) => reward[1] = Frac(3125, 1000)

\* C8 witness: the call for 2024-04-19, the date of an entry, returned 3.125.
C8_Witness ==
  /\ pc = "rewarded"
  /\ date = NewDate(<<2024, 4, 19>>)
  /\ date = HALVING_DATES[5].date
  /\ reward = <<Frac(3125, 1000)>>

\* C21 as stated: in a month whose monthlyData record has a global hashrate
\* of 0, hashrateFraction, btcMined, txFeeRevenueBTC, totalBTC and revenueUSD
\* are 0, and no number of the record is NaN or infinite.
C21_ZeroGlobalHashrate ==
  (Calculated /\ SuppliedEconomics # <<>>) =>
    (SuppliedEconomics[1].globalHashrateEH = R(0) =>
       /\ locals[1].hashrateFraction = R(0)
       /\ LatestRecord.btcMined = R(0)
       /\ LatestRecord.txFeeRevenueBTC = R(0)
       /\ LatestRecord.totalBTC = R(0)
       /\ LatestRecord.revenueUSD = R(0)
       /\ \A x \in RecordNumbers(LatestRecord) : IsFinite(x))

\* what the code satisfies instead of C21: every number of every record is
\* finite, and with a supplied global hashrate of 0 the month is calculated
\* with the default of 500 EH/s.
C21_ZeroBecomesDefault ==
  (Calculated /\ SuppliedEconomics # <<>>) =>
    /\ \A x \in RecordNumbers(LatestRecord) : IsFinite(x)
    /\ SuppliedEconomics[1].globalHashrateEH = R(0) =>
         /\ locals[1].globalHashrateEH = R(500)
         /\ locals[1].hashrateFraction
              = RDiv(LatestRecord.totalHashrateThs, RMul(R(500), R(1000000)))

\* the live tranche statuses of the site of an entry of siteMetrics
StatusesOfSite(siteId) ==
  LET OfSite(t) == t.siteId = siteId IN Filter(locals[1].trancheStatuses, OfSite)

\* the site of the input with the id
SiteOf(siteId) ==
  LET Match(site) == site.id = siteId IN Find(context.sites, Match)[1]

OtherProjectDates(c) ==
  [c EXCEPT !.project.startDate = Ymd(1, 1), !.project.endDate = Ymd(12, 1)]

\* C23: the record of every month is the record that calculateMonthMetrics
\* returns for that month alone, with no month processed before it and with
\* other project start and end dates; and at the end of the month's
\* allocation the allocatedFleets counter of every fleet is the units
\* allocated to it in that month, so it started at 0.
C23_MonthAlone ==
  Calculated =>
    /\ LatestRecord = calculateMonthMetrics(LatestMonth, OtherProjectDates(context))
    /\ \A i \in 1..Len(context.fleets) :
         LET OfFleet(a) == a.fleetId = context.fleets[i].id
         IN  MapGet(locals[1].allocatedFleets, context.fleets[i].id)
               = AllocatedWhere(locals[1].allocations, OfFleet)

\* C23 witness: the third month of a run or a later one, in which all active
\* units of a fleet are allocated as they were in the month before.
C23_Witness ==
  /\ Calculated
  /\ Len(monthlyMetrics) >= 3
  /\ \E i \in 1..Len(context.fleets) :
       LET fs == locals[1].fleetStatuses[i]
       IN  /\ fs.activeMiners > 0
           /\ MapGet(locals[1].allocatedFleets, fs.fleetId) = fs.activeMiners
  /\ LatestRecord.activeMiners > 0
  /\ monthlyMetrics[Len(monthlyMetrics) - 1].activeMiners = LatestRecord.activeMiners

\* the tranches of the input, and the total CAPEX of a tranche
InputTranches == FlatTranches(context.sites)

TotalCapex(tranche) == RSum(tranche.capex)

\* the index of the first month of the run in which the tranche is live, or
\* 0 when it was live in none so far
FirstLiveIndex(tranche) ==
  LET live == {k \in 1..Len(monthlyMetrics) : IsLive(tranche, months[k])}
  IN  IF live = {} THEN 0 ELSE CHOOSE k \in live : \A j \in live : k <= j

\* the CAPEX depreciation of the first k records
RECURSIVE CapexChargedTo(_)
CapexChargedTo(k) ==
  IF k = 0 THEN R(0)
  ELSE Let(CapexChargedTo(k - 1), LAMBDA before :
         RAdd(before, monthlyMetrics[k].capexDepreciation))

\* C24 as stated: the record of a month charges every tranche its total
\* CAPEX / 120 in the 120 months from the first month in which it is live
\* and 0 from the 121st month on, so that the CAPEX depreciation of all
\* records of a run is at most the total CAPEX of the tranches.
C24_CapexWindow ==
  /\ \A k \in 1..Len(monthlyMetrics) :
       LET Charge(tranche) ==
             IF FirstLiveIndex(tranche) # 0 /\ k >= FirstLiveIndex(tranche)
                  /\ k - FirstLiveIndex(tranche) < SITE_CAPEX_DEPRECIATION_YEARS * 12
               THEN RDiv(TotalCapex(tranche), R(SITE_CAPEX_DEPRECIATION_YEARS * 12))
               ELSE R(0)
       IN  monthlyMetrics[k].capexDepreciation = RSum(Map(InputTranches, Charge))
  /\ RLe(CapexChargedTo(Len(monthlyMetrics)), RSum(Map(InputTranches, TotalCapex)))

\* what the code satisfies instead of C24: every record charges every
\* tranche that is live in the month its total CAPEX / 120, whatever its
\* ramp-up, uptime and units, for as long as the run lasts.
C24_ChargedWhileLive ==
  \A k \in 1..Len(monthlyMetrics) :
    LET Charge(tranche) ==
          IF IsLive(tranche, months[k])
            THEN RDiv(TotalCapex(tranche), R(SITE_CAPEX_DEPRECIATION_YEARS * 12))
            ELSE R(0)
    IN  monthlyMetrics[k].capexDepreciation = RSum(Map(InputTranches, Charge))

\* the monthly depreciation of a fleet in the month: its total units times
\* model hashrateThS times model pricePerTh over its lifespan in months, from
\* its origination to the end of its lifespan, and 0 outside
FleetDepreciation(fleet, month) ==
  LET model == FindModel(context, fleet.modelId)
      originDate == NewDate(fleet.originationDate)
      lifeMonths == fleet.lifespanYears * 12
  IN  IF model = <<>> \/ isBefore(month, originDate)
           \/ differenceInMonths(month, originDate) >= lifeMonths
        THEN R(0)
        ELSE RDiv(RMul(RMul(R(TotalMiners(fleet, model[1])), model[1].hashrateThS),
                       model[1].pricePerTh),
                  R(lifeMonths))

\* C25 as stated: in every month the minerDepreciation of a site is the sum
\* of the monthly depreciation of the fleets assigned to the site, each
\* fleet once, whatever number of its units have failed or are allocated.
C25_SiteMinerDepreciation ==
  Calculated =>
    \A j \in 1..Len(LatestRecord.siteMetrics) :
      LET sm == LatestRecord.siteMetrics[j]
          Assigned(fleet) == IsAssigned(fleet.id, sm.siteId)
          Dep(fleet) == FleetDepreciation(fleet, LatestMonth)
      IN  sm.minerDepreciation = RSum(Map(Filter(context.fleets, Assigned), Dep))

\* what the code satisfies instead of C25: the sum is taken over the
\* assignments of the site, so a fleet with two assignments to the site is
\* depreciated twice in it.
C25_PerAssignment ==
  Calculated =>
    \A j \in 1..Len(LatestRecord.siteMetrics) :
      LET sm == LatestRecord.siteMetrics[j]
          Dep(a) == FleetDepreciation(FindFleet(context, a.fleetId)[1], LatestMonth)
      IN  sm.minerDepreciation = RSum(Map(SiteAssignments(context, sm.siteId), Dep))

\* the team members of the list that satisfy P, at their monthly cost in the
\* latest month: (annualSalary x employmentRate) / 12 from the start date on
TeamCostWhere(P(_)) ==
  LET Cost(member) == MemberCost(member, LatestMonth, context)
  IN  RSum(Map(Filter(context.teamMembers, P), Cost))

\* the member is scoped to the site or to one of the tranches of the site
ScopedToSite(member, site) ==
  \/ member.scope.type = "site" /\ member.scope.targetId = site.id
  \/ /\ member.scope.type = "tranche"
     /\ \E k \in 1..Len(site.tranches) : site.tranches[k].id = member.scope.targetId

\* C26 as stated: in every month the company teamCost is the monthly cost of
\* every team member that has started, each once, and the teamCost of every
\* site of the input is the monthly cost of the members scoped to the site
\* or to one of its tranches that have started, live or not; a site without
\* entry in siteMetrics has no such member.
C26_TeamCost ==
  Calculated =>
    LET All(member) == TRUE
    IN  /\ LatestRecord.teamCost = TeamCostWhere(All)
        /\ \A i \in 1..Len(context.sites) :
             LET site == context.sites[i]
                 OfSite(member) == ScopedToSite(member, site)
                 Entry(sm) == sm.siteId = site.id
                 entry == Find(LatestRecord.siteMetrics, Entry)
             IN  IF entry = <<>> THEN TeamCostWhere(OfSite) = R(0)
                 ELSE entry[1].teamCost = TeamCostWhere(OfSite)

\* what the code satisfies instead of C26: a site has a teamCost only when
\* one of its tranches is live, made of the members scoped to the site and
\* to its live tranches, and the company teamCost is the sum of the sites'
\* teamCost and of the company-scoped members.
C26_LiveTranchesOnly ==
  Calculated =>
    LET Company(member) == member.scope.type = "company"
        Team(sm) == sm.teamCost
    IN  /\ LatestRecord.teamCost
             = RAdd(RSum(Map(LatestRecord.siteMetrics, Team)), TeamCostWhere(Company))
        /\ \A j \in 1..Len(LatestRecord.siteMetrics) :
             LET sm == LatestRecord.siteMetrics[j]
                 OfLive(member) ==
                   \/ member.scope.type = "site" /\ member.scope.targetId = sm.siteId
                   \/ /\ member.scope.type = "tranche"
                      /\ \E t \in 1..Len(locals[1].trancheStatuses) :
                           /\ locals[1].trancheStatuses[t].siteId = sm.siteId
                           /\ locals[1].trancheStatuses[t].trancheId = member.scope.targetId
             IN  sm.teamCost = TeamCostWhere(OfLive)

\* the pool fee of the tranche of a status
PoolFeeOf(status) == FindTranche(context, status.trancheId)[1].poolFee

AcquisitionCost(fleet) ==
  LET model == FindModel(context, fleet.modelId)
  IN  IF model = <<>> THEN R(0)
      ELSE RMul(RMul(R(TotalMiners(fleet, model[1])), model[1].hashrateThS),
                model[1].pricePerTh)

\* the company-level minerDepreciation of the months calculated so far
DepreciationSoFar ==
  LET Dep(r) == r.minerDepreciation
  IN  RSum(Map(monthlyMetrics, Dep))

\* C29 as stated: with one fleet in the project, the company-level
\* minerDepreciation summed over the months calculated so far never exceeds
\* the acquisition cost of the fleet, also when the fleet is assigned to more
\* than one site.
C29_DepreciationWithinCost ==
  (context # <<>> /\ Len(context.fleets) = 1) =>
    RLe(DepreciationSoFar, AcquisitionCost(context.fleets[1]))

\* what the code satisfies instead of C29: the depreciation summed over the
\* months is the acquisition cost over the lifespan in months, times the
\* months of the lifespan calculated so far, times the number of
\* assignments of the fleet; at the end of a run that covers the lifespan
\* it is the acquisition cost times the number of assignments.
C29_OncePerAssignment ==
  (context # <<>> /\ Len(context.fleets) = 1) =>
    LET fleet == context.fleets[1]
        cost == AcquisitionCost(fleet)
        count == R(Len(context.fleetAssignments))
    IN  /\ RLe(DepreciationSoFar, RMul(cost, count))
        /\ pc = "done" => DepreciationSoFar = RMul(cost, count)

\* the records of the database d left when everything of project id is
\* taken out: the project, the records with projectId = id, the assignments
\* that refer to one of the sites or fleets the project has in d, and the
\* setting when it is id
WithoutProject(d, id) ==
  LET sites == Keys(ByProjectId(d.sites, id))
      fleets == Keys(ByProjectId(d.fleets, id))
  IN  [projects |-> { r \in d.projects : r.id # id },
       sites |-> d.sites \ ByProjectId(d.sites, id),
       teamMembers |-> d.teamMembers \ ByProjectId(d.teamMembers, id),
       fleets |-> d.fleets \ ByProjectId(d.fleets, id),
       fleetAssignments |->
         { a \in d.fleetAssignments : a.siteId \notin sites /\ a.fleetId \notin fleets },
       scenarios |-> d.scenarios \ ByProjectId(d.scenarios, id),
       settings |-> IF d.settings = <<id>> THEN <<>> ELSE d.settings]

\* deleteProject has returned
Returned == call # <<>> /\ call.pc = "returned"

\* C30 as stated: when deleteProject(id) has returned, the project, its
\* sites, team members, fleets and scenarios, and every assignment that
\* referred to one of its sites or to one of its fleets are gone, the
\* currentProjectId setting is cleared if it was id, and every other record
\* is as it was before the call.
C30_NothingRemains ==
  Returned => db = WithoutProject(call.before, call.id)

\* what the code satisfies instead of C30: the assignments are deleted by
\* the siteId of the project's sites only, so an assignment of a fleet of
\* the project to a site that is not of the project is still there; the
\* rest is as claimed.
C30_AssignmentsBySiteOnly ==
  Returned =>
    LET old == call.before
        expected == WithoutProject(old, call.id)
        sites == Keys(ByProjectId(old.sites, call.id))
    IN  db = [expected EXCEPT
                !.fleetAssignments = { a \in old.fleetAssignments : a.siteId \notin sites }]

\* the allocation in binary64 arithmetic has gone through the fleets
NumbersAllocated == pc = "numbers" /\ numbers.next > Len(numbers.fleets)

\* C28 as stated: at the end of the allocation, for the live tranche and
\* every fleet assigned to its site, either the fleet has no unallocated
\* active unit left or the remaining power of the tranche
\* (availablePowerMW - powerUsedMW) is smaller than the power draw of one
\* unit of the fleet's model.
C28_WorkConserving ==
  NumbersAllocated =>
    \A i \in 1..Len(numbers.fleets) :
      \/ numbers.allocated[i] = numbers.fleets[i]
      \/ NumLessThanWatts(
           NumMinus(numbers.tranche.availablePowerMW, numbers.tranche.powerUsedMW),
           numbers.powerW)

\* what the code satisfies instead of C28 in binary64 arithmetic: a tranche
\* sized for the units of its fleets holds all of them or all but one, and
\* never more power than it has.
C28_AllButOneUnit ==
  NumbersAllocated =>
    /\ numbers.tranche.allocatedMiners >= numbers.fleets[1] + numbers.fleets[2] - 1
    /\ numbers.tranche.allocatedMiners <= numbers.fleets[1] + numbers.fleets[2]
    /\ ~ BigLess(BigShl(numbers.tranche.availablePowerMW.m,
                        numbers.tranche.availablePowerMW.e + 75),
                 BigShl(numbers.tranche.powerUsedMW.m,
                        IF numbers.tranche.powerUsedMW = NumZero THEN 0
                        ELSE numbers.tranche.powerUsedMW.e + 75))

\* and in exact arithmetic the allocation of the month is work-conserving:
\* for every live tranche and every assignment of its site whose fleet and
\* model are found, the fleet has no unallocated active unit left or the
\* remaining power of the tranche is below the power draw of one unit.
C28_ExactArithmetic ==
  Calculated =>
    \A t \in 1..Len(locals[1].trancheStatuses) :
      \A a \in 1..Len(context.fleetAssignments) :
        LET tranche == locals[1].trancheStatuses[t]
            assignment == context.fleetAssignments[a]
            fleet == FindFleet(context, assignment.fleetId)
            model == IF fleet = <<>> THEN <<>> ELSE FindModel(context, fleet[1].modelId)
            MatchStatus(f) == f.fleetId = assignment.fleetId
            fleetStatus == Find(locals[1].fleetStatuses, MatchStatus)
        IN  (assignment.siteId = tranche.siteId /\ fleet # <<>> /\ model # <<>>
               /\ fleetStatus # <<>>) =>
              \/ fleetStatus[1].activeMiners
                   - MapGet(locals[1].allocatedFleets, assignment.fleetId) = 0
              \/ RLt(RSub(tranche.availablePowerMW, tranche.powerUsedMW),
                     Watts(model[1].powerW))

====
